---------------------------- MODULE Spec2Model ----------------------------
(***************************************************************************)
(* Model of the TTS metrics evaluator (scr/metrics/metrics.py): the        *)
(* TTSMetrics instances with their lazily built speaker encoder, the       *)
(* eight guarded metric steps of comprehensive_evaluation, and the metric  *)
(* functions signal_to_noise_ratio and duration_analysis computed on       *)
(* decoded sample sequences.                                               *)
(***************************************************************************)
EXTENDS Integers, Sequences, FiniteSets, TLC

VARIABLES
    sr,              \* sr[i]: sample rate of evaluator instance i
    encoder,         \* encoder[i]: cached VoiceEncoder handle, NoEncoder if unset
    handles,         \* VoiceEncoder objects constructed so far (fresh handle ids)
    built,           \* built[i]: VoiceEncoder objects constructed by instance i
    op,              \* operation running or last completed
    pc,              \* position inside comprehensive_evaluation
    self,            \* instance the operation runs on
    original_path,   \* the operation's reference file
    synthetic_path,  \* the operation's synthetic file
    results,         \* the record comprehensive_evaluation builds and returns
    calls,           \* metric calls made by comprehensive_evaluation, in order
    failed,          \* steps of comprehensive_evaluation whose try block raised
    ret,             \* value returned by a metric called directly
    raised,          \* an exception left the operation
    dirs,            \* the directories that exist, besides the working directory
    disk,            \* disk[path]: the text of the file written at path
    output_path,     \* the operation's output file
    batch,           \* the arguments and local variables of compare_models
    tts,             \* the model wrapper object and what its last call did
    verbose          \* the verbose argument of the evaluation under way

vars == <<sr, encoder, handles, built, op, pc, self, original_path,
          synthetic_path, results, calls, failed, ret, raised, dirs, disk,
          output_path, batch, tts, verbose>>

(* what the metric functions never touch *)
others == <<dirs, disk, output_path, batch, tts, verbose>>

---------------------------------------------------------------------------
(* Bounds of the model *)

MaxLen == 4        \* longest decoded waveform, in samples, of the metric calls
MaxEvalLen == 1    \* longest decoded waveform of the full evaluations
MaxEncoders == 3   \* VoiceEncoder objects the model lets be constructed
MaxFrames == 3     \* longest F0 contour of the pitch_metrics calls
MaxFaults == 1     \* steps failing in an evaluation made in one call
MaxModels == 2     \* entries of the model_outputs of compare_models
MaxTexts == 3      \* longest text_list of batch_synthesize
MaxPaths == 2      \* most --models arguments of evaluate_models.py

(* Program constants *)

DefaultSr == 16000
NoEncoder == 0
CompareSr == 16000

Inst == {1, 2}
Samples == {0, 1}

---------------------------------------------------------------------------
(* Files.  A path stands for what is found there: no file, a file that    *)
(* librosa cannot decode, or the mono waveform decoded at the evaluator's  *)
(* sample rate together with the F0 contour librosa.yin extracts from it.  *)

Missing == [exists |-> FALSE, ok |-> FALSE, samples |-> <<>>, f0 |-> <<>>]

Corrupt == [exists |-> TRUE, ok |-> FALSE, samples |-> <<>>, f0 |-> <<>>]

SignalsUpTo(n) == UNION {[1..k -> Samples] : k \in 0..n}

(* F0 frames are frequencies in Hz; NaNHz stands for a nan frame *)
NaNHz == -1

VoicedHz == 100

(* the contour of the waveforms of Files: a frame per sample, voiced where *)
(* the sample is not zero                                                  *)
Contour(w) == [k \in 1..Len(w) |-> IF w[k] = 0 THEN 0 ELSE VoicedHz]

FilesUpTo(n) ==
    {Missing} \cup {[exists |-> TRUE, ok |-> TRUE, samples |-> w, f0 |-> Contour(w)] :
                        w \in SignalsUpTo(n)}

Files == FilesUpTo(MaxLen)

HighHz == 200

F0Values == {NaNHz, 0, VoicedHz, HighHz}

ContoursUpTo(n) == UNION {[1..k -> F0Values] : k \in 0..n}

(* the files of the pitch_metrics calls: any contour, nan and unvoiced     *)
(* frames included, over a waveform with signal in the voiced frames       *)
PitchFiles ==
    {Missing} \cup
    {[exists |-> TRUE, ok |-> TRUE,
      samples |-> [k \in 1..Len(c) |-> IF c[k] > 0 THEN 1 ELSE 0],
      f0 |-> c] : c \in ContoursUpTo(MaxFrames)}

EvalFiles == FilesUpTo(MaxEvalLen)

LoadFails(audio_path) == ~audio_path.ok

_load_audio(audio_path) == audio_path.samples

---------------------------------------------------------------------------
(* Values.  Floats are exact rationals num/den, or one of inf, -inf, nan, *)
(* or a level 10*log10(num/den) kept as its ratio, or the value of a       *)
(* library computation, determined by its name and its inputs.             *)

None == [kind |-> "None"]

Str(path) == [kind |-> "str", of |-> path]

Name(text) == [kind |-> "str", text |-> text]

Inf == [kind |-> "float", cls |-> "inf", num |-> 0, den |-> 0]

NegInf == [kind |-> "float", cls |-> "-inf", num |-> 0, den |-> 0]

NaN == [kind |-> "float", cls |-> "nan", num |-> 0, den |-> 0]

RECURSIVE Gcd(_, _)
Gcd(a, b) == IF b = 0 THEN a ELSE Gcd(b, a % b)

Abs(n) == IF n < 0 THEN -n ELSE n

Min(a, b) == IF a <= b THEN a ELSE b

Range(seq) == {seq[k] : k \in 1..Len(seq)}

Ratio(cls, n, d) ==
    LET g == Gcd(Abs(n), d)
    IN  [kind |-> "float", cls |-> cls, num |-> n \div g, den |-> d \div g]

Float(n, d) == Ratio("finite", n, d)

Computed(name, a, b) == [kind |-> "float", cls |-> name, of |-> <<a, b>>]

(* a statistic librosa computes from one decoded input *)
Feature(name, a) == [kind |-> "float", cls |-> name, of |-> <<a>>]

Raise(exc) == [kind |-> "raise", exc |-> exc]

IsRaise(r) == "kind" \in DOMAIN r /\ r.kind = "raise"

IsFinite(v) == v.kind = "float" /\ v.cls = "finite"

RECURSIVE SumSq(_)
SumSq(w) == IF w = <<>> THEN 0 ELSE Head(w) * Head(w) + SumSq(Tail(w))

(* np.mean(w ** 2): nan for an empty array *)
MeanSq(w) == IF Len(w) = 0 THEN NaN ELSE Float(SumSq(w), Len(w))

(* w[:n] *)
Truncate(w, n) == SubSeq(w, 1, n)

(* a - b, elementwise, for arrays of one length *)
Diff(a, b) == [k \in 1..Len(a) |-> a[k] - b[k]]

(* a / b in Python floats: ZeroDivisionError for b = 0 *)
Div(a, b) ==
    IF b.num = 0 THEN Raise("ZeroDivisionError")
    ELSE Float(a.num * b.den, a.den * b.num)

(* abs(a - b) *)
AbsDiff(a, b) == Float(Abs(a.num * b.den - b.num * a.den), a.den * b.den)

(* 10 * np.log10(signal_power / noise_power) on numpy floats *)
Log10Ratio(signal_power, noise_power) ==
    IF ~IsFinite(signal_power) \/ ~IsFinite(noise_power) THEN NaN
    ELSE IF noise_power.num = 0
         THEN (IF signal_power.num = 0 THEN NaN ELSE Inf)
    ELSE IF signal_power.num = 0 THEN NegInf
    ELSE Ratio("dB", signal_power.num * noise_power.den,
                     signal_power.den * noise_power.num)

---------------------------------------------------------------------------
(* The metric functions.  Each returns its value, or Raise(..) when it     *)
(* raises.                                                                 *)

(* the cut to min_len applied to the reference only *)
AlignedReferenceOnly(original, synthetic) ==
    LET min_len == Min(Len(_load_audio(original)), Len(_load_audio(synthetic)))
    IN  [original |-> Truncate(_load_audio(original), min_len),
         synthetic |-> _load_audio(synthetic)]

(* min_len = min(len(original), len(synthetic)); original[:min_len];       *)
(* synthetic[:min_len]: the buffers a librosa metric compares              *)
Aligned(original, synthetic) ==
    LET min_len == Min(Len(_load_audio(original)), Len(_load_audio(synthetic)))
    IN  [original |-> Truncate(_load_audio(original), min_len),
         synthetic |-> Truncate(_load_audio(synthetic), min_len)]

(* resemblyzer's preprocess_wav(path): the recording with its silences     *)
(* trimmed away, whatever the other recording is                           *)
preprocess_wav(audio_path) == SelectSeq(_load_audio(audio_path), LAMBDA x : x # 0)

(* the buffers speaker_similarity embeds *)
Preprocessed(original, synthetic) ==
    [original |-> preprocess_wav(original), synthetic |-> preprocess_wav(synthetic)]

signal_to_noise_ratio(original, synthetic) ==
    IF LoadFails(original) \/ LoadFails(synthetic) THEN Raise("DecodeError")
    ELSE
    LET o == Aligned(original, synthetic).original
        s == Aligned(original, synthetic).synthetic
        signal_power == MeanSq(s)
        noise_power == MeanSq(Diff(o, s))
    IN  IF IsFinite(noise_power) /\ noise_power.num = 0 THEN Inf
        ELSE Log10Ratio(signal_power, noise_power)

(* duration_analysis without the test of dur_orig before the division *)
duration_analysis_unguarded(rate, original, synthetic) ==
    IF LoadFails(original) \/ LoadFails(synthetic) THEN Raise("DecodeError")
    ELSE
    LET dur_orig == Float(Len(_load_audio(original)), rate)
        dur_synth == Float(Len(_load_audio(synthetic)), rate)
        diff == AbsDiff(dur_orig, dur_synth)
        ratio == Div(dur_synth, dur_orig)
    IN  IF IsRaise(ratio) THEN ratio
        ELSE [original_duration |-> dur_orig,
              synthetic_duration |-> dur_synth,
              duration_difference |-> diff,
              duration_ratio |-> ratio]

(* duration_analysis cutting both waveforms to min_len first, as the       *)
(* comparing metrics do                                                    *)
duration_analysis_truncated(rate, original, synthetic) ==
    IF LoadFails(original) \/ LoadFails(synthetic) THEN Raise("DecodeError")
    ELSE
    LET min_len == Min(Len(_load_audio(original)), Len(_load_audio(synthetic)))
        dur_orig == Float(Len(Truncate(_load_audio(original), min_len)), rate)
        dur_synth == Float(Len(Truncate(_load_audio(synthetic), min_len)), rate)
        diff == AbsDiff(dur_orig, dur_synth)
        ratio == IF dur_orig.num > 0 THEN Div(dur_synth, dur_orig) ELSE Float(0, 1)
    IN  IF IsRaise(ratio) THEN ratio
        ELSE [original_duration |-> dur_orig,
              synthetic_duration |-> dur_synth,
              duration_difference |-> diff,
              duration_ratio |-> ratio]

(* duration_analysis whose guard falls back to a ratio of 1 *)
duration_analysis_unit(rate, original, synthetic) ==
    IF LoadFails(original) \/ LoadFails(synthetic) THEN Raise("DecodeError")
    ELSE
    LET dur_orig == Float(Len(_load_audio(original)), rate)
        dur_synth == Float(Len(_load_audio(synthetic)), rate)
        diff == AbsDiff(dur_orig, dur_synth)
        ratio == IF dur_orig.num > 0 THEN Div(dur_synth, dur_orig) ELSE Float(1, 1)
    IN  IF IsRaise(ratio) THEN ratio
        ELSE [original_duration |-> dur_orig,
              synthetic_duration |-> dur_synth,
              duration_difference |-> diff,
              duration_ratio |-> ratio]

duration_analysis(rate, original, synthetic) ==
    IF LoadFails(original) \/ LoadFails(synthetic) THEN Raise("DecodeError")
    ELSE
    LET dur_orig == Float(Len(_load_audio(original)), rate)
        dur_synth == Float(Len(_load_audio(synthetic)), rate)
        diff == AbsDiff(dur_orig, dur_synth)
        ratio == IF dur_orig.num > 0 THEN Div(dur_synth, dur_orig) ELSE Float(0, 1)
    IN  IF IsRaise(ratio) THEN ratio
        ELSE [original_duration |-> dur_orig,
              synthetic_duration |-> dur_synth,
              duration_difference |-> diff,
              duration_ratio |-> ratio]

(* The metrics below call into librosa, resemblyzer, scipy and sklearn.    *)
(* The features librosa extracts are kept at one frame per sample: the     *)
(* cepstral coefficient of a frame and the magnitude of a bin follow the   *)
(* sample, so that equal buffers have equal features and only a silent     *)
(* buffer has an all-zero spectrogram.                                     *)

RECURSIVE SumAbs(_)
SumAbs(w) == IF w = <<>> THEN 0 ELSE Abs(Head(w)) + SumAbs(Tail(w))

(* librosa.feature.mfcc(y)[1:, :] *)
Mfcc(w) == w

(* np.abs(librosa.stft(y)) *)
Magnitude(w) == [k \in 1..Len(w) |-> Abs(w[k])]

(* np.mean(mcd) of mcd = (10 / ln 10) * sqrt(2 * sum(diff ** 2, axis=0)),  *)
(* kept as the mean of |diff| that it scales: nan for no frame             *)
MeanDistortion(diff) ==
    IF Len(diff) = 0 THEN NaN
    ELSE IF SumAbs(diff) = 0 THEN Float(0, 1)
    ELSE Ratio("mcd", SumAbs(diff), Len(diff))

(* np.linalg.norm(a, ord='fro'), kept as its square *)
NormSq(a) == SumSq(a)

(* numerator / denominator on numpy floats, both given by their squares:   *)
(* nan for 0 / 0, inf for x / 0                                            *)
NormRatio(numerator, denominator) ==
    IF denominator = 0 THEN (IF numerator = 0 THEN NaN ELSE Inf)
    ELSE IF numerator = 0 THEN Float(0, 1)
    ELSE Ratio("sqrt", numerator, denominator)

mel_cepstral_distortion(original, synthetic) ==
    IF LoadFails(original) \/ LoadFails(synthetic) THEN Raise("DecodeError")
    ELSE
    LET mfcc_orig == Mfcc(Aligned(original, synthetic).original)
        mfcc_synth == Mfcc(Aligned(original, synthetic).synthetic)
    IN  MeanDistortion(Diff(mfcc_orig, mfcc_synth))

spectral_convergence(original, synthetic) ==
    IF LoadFails(original) \/ LoadFails(synthetic) THEN Raise("DecodeError")
    ELSE
    LET stft_orig == Magnitude(Aligned(original, synthetic).original)
        stft_synth == Magnitude(Aligned(original, synthetic).synthetic)
    IN  NormRatio(NormSq(Diff(stft_orig, stft_synth)), NormSq(stft_orig))

spectral_similarity(original, synthetic) ==
    IF LoadFails(original) \/ LoadFails(synthetic) THEN Raise("DecodeError")
    ELSE
    LET o == Aligned(original, synthetic).original
        s == Aligned(original, synthetic).synthetic
    IN  [mel_mse |-> Computed("mel_mse", o, s),
         mel_correlation |-> Computed("mel_correlation", o, s)]

(* f0 = librosa.yin(audio, ...) *)
yin(audio_path) == audio_path.f0

(* the contour used as it is, unvoiced and nan frames included *)
ValidF0Unfiltered(f0) == f0

(* f0[(f0 > 0) & (~np.isnan(f0))] *)
ValidF0(f0) == SelectSeq(f0, LAMBDA f : f > 0 /\ f # NaNHz)

RECURSIVE Sum(_)
Sum(w) == IF w = <<>> THEN 0 ELSE Head(w) + Sum(Tail(w))

RECURSIVE MinOf(_)
MinOf(w) == IF Len(w) = 1 THEN w[1] ELSE Min(Head(w), MinOf(Tail(w)))

RECURSIVE MaxOf(_)
MaxOf(w) == IF Len(w) = 1 THEN w[1] ELSE -Min(-Head(w), -MaxOf(Tail(w)))

(* np.std(w): the square root of the variance, kept as the variance *)
Std(w) ==
    IF Len(w) * SumSq(w) = Sum(w) * Sum(w) THEN Float(0, 1)
    ELSE Ratio("sqrt", Len(w) * SumSq(w) - Sum(w) * Sum(w), Len(w) * Len(w))

pitch_metrics(audio_path) ==
    IF LoadFails(audio_path) THEN Raise("DecodeError")
    ELSE
    LET valid_f0 == ValidF0(yin(audio_path))
    IN  IF Len(valid_f0) = 0
        THEN [mean_pitch |-> Float(0, 1),
              std_pitch |-> Float(0, 1),
              min_pitch |-> Float(0, 1),
              max_pitch |-> Float(0, 1),
              pitch_range |-> Float(0, 1)]
        ELSE [mean_pitch |-> Float(Sum(valid_f0), Len(valid_f0)),
              std_pitch |-> Std(valid_f0),
              min_pitch |-> Float(MinOf(valid_f0), 1),
              max_pitch |-> Float(MaxOf(valid_f0), 1),
              pitch_range |-> Float(MaxOf(valid_f0) - MinOf(valid_f0), 1)]

energy_metrics(audio_path) ==
    IF LoadFails(audio_path) THEN Raise("DecodeError")
    ELSE [mean_energy |-> Feature("mean_energy", _load_audio(audio_path)),
          std_energy |-> Feature("std_energy", _load_audio(audio_path)),
          max_energy |-> Feature("max_energy", _load_audio(audio_path)),
          mean_zcr |-> Feature("mean_zcr", _load_audio(audio_path)),
          std_zcr |-> Feature("std_zcr", _load_audio(audio_path))]

(* _get_encoder without the `is None` test: a VoiceEncoder per call *)
_get_encoder_always(enc, i, h, loads) ==
    IF loads
    THEN [encoder |-> [enc EXCEPT ![i] = h + 1], constructed |-> 1,
          raises |-> FALSE]
    ELSE [encoder |-> enc, constructed |-> 0, raises |-> TRUE]

(* _get_encoder assigning the field before the constructor has returned:  *)
(* a construction that fails leaves a half-built encoder cached            *)
_get_encoder_poisoned(enc, i, h, loads) ==
    IF enc[i] = NoEncoder
    THEN IF loads
         THEN [encoder |-> [enc EXCEPT ![i] = h + 1], constructed |-> 1,
               raises |-> FALSE]
         ELSE [encoder |-> [enc EXCEPT ![i] = h + 1], constructed |-> 0,
               raises |-> TRUE]
    ELSE [encoder |-> enc, constructed |-> 0, raises |-> FALSE]

(* _get_encoder caching the encoder on the class: one field for all instances *)
_get_encoder_shared(enc, i, h, loads) ==
    IF enc[i] = NoEncoder
    THEN IF loads
         THEN [encoder |-> [j \in DOMAIN enc |-> h + 1], constructed |-> 1,
               raises |-> FALSE]
         ELSE [encoder |-> enc, constructed |-> 0, raises |-> TRUE]
    ELSE [encoder |-> enc, constructed |-> 0, raises |-> FALSE]

(* self._get_encoder(): enc is the encoder field of every instance, h the  *)
(* number of VoiceEncoder objects built so far, loads whether VoiceEncoder()*)
(* succeeds when it is called.                                             *)
_get_encoder(enc, i, h, loads) ==
    IF enc[i] = NoEncoder
    THEN IF loads
         THEN [encoder |-> [enc EXCEPT ![i] = h + 1], constructed |-> 1,
               raises |-> FALSE]
         ELSE [encoder |-> enc, constructed |-> 0, raises |-> TRUE]
    ELSE [encoder |-> enc, constructed |-> 0, raises |-> FALSE]

(* speaker_similarity: the encoder first, then preprocess_wav of both      *)
(* paths, the two embeddings and their cosine similarity; fault is a       *)
(* failure of preprocessing or embedding.                                  *)
speaker_similarity(enc, i, h, loads, fault, original, synthetic) ==
    LET e == _get_encoder(enc, i, h, loads)
    IN  [encoder |-> e.encoder,
         constructed |-> e.constructed,
         value |-> IF e.raises THEN Raise("ModelLoadError")
                   ELSE IF LoadFails(original) \/ LoadFails(synthetic)
                        THEN Raise("DecodeError")
                   ELSE IF fault THEN Raise("ComputationError")
                   ELSE Computed("speaker_similarity",
                                 Preprocessed(original, synthetic).original,
                                 Preprocessed(original, synthetic).synthetic)]

---------------------------------------------------------------------------
(* comprehensive_evaluation: eight try blocks in source order.             *)

(* the SNR block placed before the spectral convergence block *)
MetricSequenceSwapped ==
    <<"speaker_similarity", "mel_cepstral_distortion", "signal_to_noise_ratio",
      "spectral_convergence", "spectral_similarity", "duration_analysis",
      "pitch_metrics", "energy_metrics">>

MetricSequence ==
    <<"speaker_similarity", "mel_cepstral_distortion", "spectral_convergence",
      "signal_to_noise_ratio", "spectral_similarity", "duration_analysis",
      "pitch_metrics", "energy_metrics">>

(* the position reached when a step's try statement is left *)
After(step) ==
    LET k == CHOOSE n \in 1..Len(MetricSequence) : MetricSequence[n] = step
    IN  IF k = Len(MetricSequence) THEN "returned" ELSE MetricSequence[k + 1]

(* the duration block left without its try/except *)
HandledButDuration(step) == step # "duration_analysis"

(* every try block has an `except Exception` clause *)
Handled(step) == TRUE

(* the except clause of the spectral similarity block setting one key only *)
NullKeysFirstOnly(step) ==
    CASE step = "speaker_similarity" -> {"speaker_similarity"}
      [] step = "mel_cepstral_distortion" -> {"mcd"}
      [] step = "spectral_convergence" -> {"spectral_convergence"}
      [] step = "signal_to_noise_ratio" -> {"snr"}
      [] step = "spectral_similarity" -> {"mel_mse"}
      [] OTHER -> {}

(* the keys a step's except clause sets to None *)
NullKeys(step) ==
    CASE step = "speaker_similarity" -> {"speaker_similarity"}
      [] step = "mel_cepstral_distortion" -> {"mcd"}
      [] step = "spectral_convergence" -> {"spectral_convergence"}
      [] step = "signal_to_noise_ratio" -> {"snr"}
      [] step = "spectral_similarity" -> {"mel_mse", "mel_correlation"}
      [] OTHER -> {}

(* results[key] = value, results.update(new) *)
Update(d, new) == new @@ d

NoResults == <<>>

NoReturn == [kind |-> "noreturn"]

(* f"{v:d}": an integer presentation type, which no float accepts *)
FormatInt(v) ==
    IF "kind" \in DOMAIN v /\ v.kind = "int" THEN Name("digits")
    ELSE IF "kind" \in DOMAIN v /\ v.kind = "float" THEN Raise("ValueError")
    ELSE Raise("TypeError")

(* f"{v:.4f}" and f"{v:.2f}": the digits of a float, nan and inf included; *)
(* TypeError for None and for a dict                                       *)
Format(v) ==
    IF "kind" \in DOMAIN v /\ v.kind = "float" THEN Name("digits")
    ELSE Raise("TypeError")

(* the progress lines at the end of a step's try block, printed when       *)
(* verbose: whether formatting one of their values raises                  *)
ProgressRaises(step, new) ==
    LET values ==
          CASE step = "speaker_similarity" -> {new["speaker_similarity"]}
            [] step = "mel_cepstral_distortion" -> {new["mcd"]}
            [] step = "spectral_convergence" -> {new["spectral_convergence"]}
            [] step = "signal_to_noise_ratio" -> {new["snr"]}
            [] step = "spectral_similarity" ->
                   {new["mel_mse"], new["mel_correlation"]}
            [] step = "duration_analysis" ->
                   {new["original_duration"], new["synthetic_duration"],
                    new["duration_difference"]}
            [] step = "pitch_metrics" ->
                   {new["original_pitch"].mean_pitch,
                    new["synthetic_pitch"].mean_pitch, new["pitch_difference"]}
            [] step = "energy_metrics" ->
                   {new["original_energy"].mean_energy,
                    new["synthetic_energy"].mean_energy}
    IN  \E v \in values : IsRaise(Format(v))

(* `if results.get(key):` None and 0.0 are false, nan and inf are true; a  *)
(* library value is taken as not zero, the case in which it is formatted   *)
Truthy(v) == v # None /\ ~(IsFinite(v) /\ v.num = 0)

(* the summary printed before the return when verbose: whether formatting  *)
(* one of its three metrics raises                                         *)
SummaryRaises(record) ==
    \E key \in {"speaker_similarity", "mcd", "mel_correlation"} :
        /\ key \in DOMAIN record
        /\ Truthy(record[key])
        /\ IsRaise(Format(record[key]))

(* a step's try statement is left with the record out; after the last one  *)
(* come the summary and the return                                         *)
Leave(step, out) ==
    /\ results' = out
    /\ pc' = After(step)
    /\ raised' = (raised \/ (After(step) = "returned" /\ verbose
                                /\ SummaryRaises(out)))

(* a step's try statement is left by an exception no clause catches *)
Escape(out) ==
    /\ results' = out
    /\ pc' = "returned"
    /\ raised' = TRUE

(* the metric call of a step raised *)
Fail(step) ==
    /\ failed' = failed \cup {step}
    /\ IF Handled(step)
       THEN Leave(step, Update(results, [k \in NullKeys(step) |-> None]))
       ELSE Escape(results)

(* the metric call of a step returned and new was stored; a progress line  *)
(* that raises is caught by the step's except clause like a metric failure *)
Pass(step, new) ==
    /\ failed' = failed
    /\ IF verbose /\ ProgressRaises(step, new)
       THEN IF Handled(step)
            THEN Leave(step, Update(Update(results, new),
                                    [k \in NullKeys(step) |-> None]))
            ELSE Escape(Update(results, new))
       ELSE Leave(step, Update(results, new))

Idle == pc = "idle"

ComprehensiveEvaluation(F) ==
    /\ Idle
    /\ \E i \in Inst, o \in F, s \in F :
         /\ self' = i
         /\ original_path' = o
         /\ synthetic_path' = s
         /\ results' = [original_audio |-> Str(o), synthetic_audio |-> Str(s)]
    /\ verbose' \in BOOLEAN
    /\ op' = "comprehensive_evaluation"
    /\ pc' = MetricSequence[1]
    /\ calls' = <<>>
    /\ failed' = {}
    /\ ret' = NoReturn
    /\ raised' = FALSE
    /\ UNCHANGED <<sr, encoder, handles, built, dirs, disk, output_path, batch,
                   tts>>

SpeakerSimilarityStep ==
    /\ pc = "speaker_similarity"
    /\ \E loads \in {b \in BOOLEAN : b => handles < MaxEncoders}, fault \in BOOLEAN :
         LET r == speaker_similarity(encoder, self, handles, loads, fault,
                                     original_path, synthetic_path)
         IN  /\ encoder' = r.encoder
             /\ handles' = handles + r.constructed
             /\ built' = [built EXCEPT ![self] = @ + r.constructed]
             /\ IF IsRaise(r.value) THEN Fail(pc)
                ELSE Pass(pc, "speaker_similarity" :> r.value)
    /\ calls' = Append(calls, "speaker_similarity")
    /\ UNCHANGED <<sr, op, self, original_path, synthetic_path, ret>>
    /\ UNCHANGED others

MCDStep ==
    /\ pc = "mel_cepstral_distortion"
    /\ \E fault \in BOOLEAN :
         LET r == mel_cepstral_distortion(original_path, synthetic_path)
         IN  IF fault \/ IsRaise(r) THEN Fail(pc) ELSE Pass(pc, "mcd" :> r)
    /\ calls' = Append(calls, "mel_cepstral_distortion")
    /\ UNCHANGED <<sr, encoder, handles, built, op, self, original_path,
                   synthetic_path, ret>>
    /\ UNCHANGED others

SpectralConvergenceStep ==
    /\ pc = "spectral_convergence"
    /\ \E fault \in BOOLEAN :
         LET r == spectral_convergence(original_path, synthetic_path)
         IN  IF fault \/ IsRaise(r) THEN Fail(pc)
             ELSE Pass(pc, "spectral_convergence" :> r)
    /\ calls' = Append(calls, "spectral_convergence")
    /\ UNCHANGED <<sr, encoder, handles, built, op, self, original_path,
                   synthetic_path, ret>>
    /\ UNCHANGED others

SNRStep ==
    /\ pc = "signal_to_noise_ratio"
    /\ \E fault \in BOOLEAN :
         LET r == signal_to_noise_ratio(original_path, synthetic_path)
         IN  IF fault \/ IsRaise(r) THEN Fail(pc) ELSE Pass(pc, "snr" :> r)
    /\ calls' = Append(calls, "signal_to_noise_ratio")
    /\ UNCHANGED <<sr, encoder, handles, built, op, self, original_path,
                   synthetic_path, ret>>
    /\ UNCHANGED others

SpectralSimilarityStep ==
    /\ pc = "spectral_similarity"
    /\ \E fault \in BOOLEAN :
         LET r == spectral_similarity(original_path, synthetic_path)
         IN  IF fault \/ IsRaise(r) THEN Fail(pc) ELSE Pass(pc, r)
    /\ calls' = Append(calls, "spectral_similarity")
    /\ UNCHANGED <<sr, encoder, handles, built, op, self, original_path,
                   synthetic_path, ret>>
    /\ UNCHANGED others

DurationStep ==
    /\ pc = "duration_analysis"
    /\ \E fault \in BOOLEAN :
         LET r == duration_analysis(sr[self], original_path, synthetic_path)
         IN  IF fault \/ IsRaise(r) THEN Fail(pc) ELSE Pass(pc, r)
    /\ calls' = Append(calls, "duration_analysis")
    /\ UNCHANGED <<sr, encoder, handles, built, op, self, original_path,
                   synthetic_path, ret>>
    /\ UNCHANGED others

(* pitch_difference = abs(pitch_orig['mean_pitch'] - pitch_synth['mean_pitch']) *)
PitchDifference(pitch_orig, pitch_synth) ==
    AbsDiff(pitch_orig.mean_pitch, pitch_synth.mean_pitch)

PitchStep ==
    /\ pc = "pitch_metrics"
    /\ \E fault \in {"none", "original", "synthetic"} :
         LET pitch_orig == pitch_metrics(original_path)
             pitch_synth == pitch_metrics(synthetic_path)
             first == fault = "original" \/ IsRaise(pitch_orig)
             second == fault = "synthetic" \/ IsRaise(pitch_synth)
         IN  /\ calls' = calls \o (IF first THEN <<"pitch_metrics:original">>
                                   ELSE <<"pitch_metrics:original",
                                          "pitch_metrics:synthetic">>)
             /\ IF first \/ second THEN Fail(pc)
                ELSE Pass(pc, [original_pitch |-> pitch_orig,
                               synthetic_pitch |-> pitch_synth,
                               pitch_difference |->
                                   PitchDifference(pitch_orig, pitch_synth)])
    /\ UNCHANGED <<sr, encoder, handles, built, op, self, original_path,
                   synthetic_path, ret>>
    /\ UNCHANGED others

EnergyStep ==
    /\ pc = "energy_metrics"
    /\ \E fault \in {"none", "original", "synthetic"} :
         LET energy_orig == energy_metrics(original_path)
             energy_synth == energy_metrics(synthetic_path)
             first == fault = "original" \/ IsRaise(energy_orig)
             second == fault = "synthetic" \/ IsRaise(energy_synth)
         IN  /\ calls' = calls \o (IF first THEN <<"energy_metrics:original">>
                                   ELSE <<"energy_metrics:original",
                                          "energy_metrics:synthetic">>)
             /\ IF first \/ second THEN Fail(pc)
                ELSE Pass(pc, [original_energy |-> energy_orig,
                               synthetic_energy |-> energy_synth])
    /\ UNCHANGED <<sr, encoder, handles, built, op, self, original_path,
                   synthetic_path, ret>>
    /\ UNCHANGED others

---------------------------------------------------------------------------
(* comprehensive_evaluation as one call: what it returns for the steps in  *)
(* faults failing, besides those that fail on the inputs themselves.       *)

(* what the try block of a step after the first stores, or what it raises *)
StepOutcome(step, rate, o, s) ==
    CASE step = "mel_cepstral_distortion" ->
             LET r == mel_cepstral_distortion(o, s)
             IN  IF IsRaise(r) THEN r ELSE "mcd" :> r
      [] step = "spectral_convergence" ->
             LET r == spectral_convergence(o, s)
             IN  IF IsRaise(r) THEN r ELSE "spectral_convergence" :> r
      [] step = "signal_to_noise_ratio" ->
             LET r == signal_to_noise_ratio(o, s)
             IN  IF IsRaise(r) THEN r ELSE "snr" :> r
      [] step = "spectral_similarity" -> spectral_similarity(o, s)
      [] step = "duration_analysis" -> duration_analysis(rate, o, s)
      [] step = "pitch_metrics" ->
             LET pitch_orig == pitch_metrics(o)
                 pitch_synth == pitch_metrics(s)
             IN  IF IsRaise(pitch_orig) THEN pitch_orig
                 ELSE IF IsRaise(pitch_synth) THEN pitch_synth
                 ELSE [original_pitch |-> pitch_orig,
                       synthetic_pitch |-> pitch_synth,
                       pitch_difference |-> PitchDifference(pitch_orig, pitch_synth)]
      [] step = "energy_metrics" ->
             LET energy_orig == energy_metrics(o)
                 energy_synth == energy_metrics(s)
             IN  IF IsRaise(energy_orig) THEN energy_orig
                 ELSE IF IsRaise(energy_synth) THEN energy_synth
                 ELSE [original_energy |-> energy_orig,
                       synthetic_energy |-> energy_synth]

(* the record after a step: the step's values, or None for its NullKeys *)
AfterStep(acc, step, outcome, fails) ==
    IF fails
    THEN [results |-> Update(acc.results, [k \in NullKeys(step) |-> None]),
          failed |-> acc.failed \cup {step}]
    ELSE [results |-> Update(acc.results, outcome), failed |-> acc.failed]

RECURSIVE RunSteps(_, _, _, _, _, _)
RunSteps(k, acc, rate, o, s, faults) ==
    IF k > Len(MetricSequence) THEN acc
    ELSE LET step == MetricSequence[k]
             outcome == StepOutcome(step, rate, o, s)
         IN  RunSteps(k + 1,
                      AfterStep(acc, step, outcome, step \in faults \/ IsRaise(outcome)),
                      rate, o, s, faults)

comprehensive_evaluation(enc, i, h, loads, rate, o, s, faults) ==
    LET sp == speaker_similarity(enc, i, h, loads, "speaker_similarity" \in faults,
                                 o, s)
        start == [results |-> [original_audio |-> Str(o), synthetic_audio |-> Str(s)],
                  failed |-> {}]
        first == AfterStep(start, "speaker_similarity",
                           "speaker_similarity" :> sp.value, IsRaise(sp.value))
        last == RunSteps(2, first, rate, o, s, faults)
    IN  [encoder |-> sp.encoder, constructed |-> sp.constructed,
         results |-> last.results, failed |-> last.failed]

---------------------------------------------------------------------------
(* The file system and JSON.  A path is the sequence of its components, a  *)
(* JSON text the tree of its tokens.                                       *)

OutputPaths == {<<"metrics.json">>, <<"results", "run", "metrics.json">>}

(* Path(output_path).parent *)
Parent(path) == SubSeq(path, 1, Len(path) - 1)

(* a directory with every directory above it, the working directory aside *)
Ancestors(directory) == {SubSeq(directory, 1, k) : k \in 1..Len(directory)}

(* mkdir(parents=True) without exist_ok: FileExistsError for a directory   *)
(* that is already there                                                   *)
MkdirNoExistOk(existing, written, directory) ==
    IF directory = <<>> \/ directory \in existing
           \/ \E a \in Ancestors(directory) : a \in DOMAIN written
    THEN [dirs |-> existing, raises |-> TRUE]
    ELSE [dirs |-> existing \cup Ancestors(directory), raises |-> FALSE]

(* directory.mkdir(parents=True, exist_ok=True): raises only when a file   *)
(* stands where a directory is needed                                      *)
Mkdir(existing, written, directory) ==
    IF \E a \in Ancestors(directory) : a \in DOMAIN written
    THEN [dirs |-> existing, raises |-> TRUE]
    ELSE [dirs |-> existing \cup Ancestors(directory), raises |-> FALSE]

IsLeaf(v) == "kind" \in DOMAIN v

(* json.dump with nan and the infinities written as null, as strict JSON   *)
(* has no token for them                                                   *)
RECURSIVE DumpStrict(_)
DumpStrict(v) ==
    IF IsLeaf(v)
    THEN CASE v.kind = "None" -> [tok |-> "null"]
           [] v.kind = "str" -> [tok |-> "string", chars |-> v]
           [] v.kind = "float" ->
                  IF v.cls \in {"nan", "inf", "-inf"} THEN [tok |-> "null"]
                  ELSE [tok |-> "number", repr |-> v]
    ELSE [tok |-> "object", members |-> [k \in DOMAIN v |-> DumpStrict(v[k])]]

(* json.dump(results, f, indent=2, ensure_ascii=False): None as null, a    *)
(* float as the shortest decimal that reads back as the same float, nan    *)
(* and the infinities as NaN, Infinity and -Infinity, a dict as an object  *)
RECURSIVE Dump(_)
Dump(v) ==
    IF IsLeaf(v)
    THEN CASE v.kind = "None" -> [tok |-> "null"]
           [] v.kind = "str" -> [tok |-> "string", chars |-> v]
           [] v.kind = "float" ->
                  IF v.cls = "nan" THEN [tok |-> "NaN"]
                  ELSE IF v.cls = "inf" THEN [tok |-> "Infinity"]
                  ELSE IF v.cls = "-inf" THEN [tok |-> "-Infinity"]
                  ELSE [tok |-> "number", repr |-> v]
    ELSE [tok |-> "object", members |-> [k \in DOMAIN v |-> Dump(v[k])]]

(* json.load *)
RECURSIVE Load(_)
Load(text) ==
    CASE text.tok = "null" -> None
      [] text.tok = "string" -> text.chars
      [] text.tok = "NaN" -> NaN
      [] text.tok = "Infinity" -> Inf
      [] text.tok = "-Infinity" -> NegInf
      [] text.tok = "number" -> text.repr
      [] text.tok = "object" ->
             [k \in DOMAIN text.members |-> Load(text.members[k])]

(* a file left at the output path by an earlier run *)
StaleText == [tok |-> "object", members |-> <<>>]

---------------------------------------------------------------------------
(* Metrics called directly on an instance.                                 *)

DirectCall(name, i, o, s, r) ==
    /\ op' = name
    /\ self' = i
    /\ original_path' = o
    /\ synthetic_path' = s
    /\ ret' = IF IsRaise(r) THEN NoReturn ELSE r
    /\ raised' = IsRaise(r)
    /\ pc' = "returned"
    /\ results' = NoResults
    /\ calls' = <<>>
    /\ failed' = {}

SpeakerSimilarityCall(F) ==
    /\ Idle
    /\ \E i \in Inst, o \in F, s \in F, fault \in BOOLEAN,
          loads \in {b \in BOOLEAN : b => handles < MaxEncoders} :
         LET r == speaker_similarity(encoder, i, handles, loads, fault, o, s)
         IN  /\ encoder' = r.encoder
             /\ handles' = handles + r.constructed
             /\ built' = [built EXCEPT ![i] = @ + r.constructed]
             /\ DirectCall("speaker_similarity", i, o, s, r.value)
    /\ UNCHANGED sr
    /\ UNCHANGED others

SignalToNoiseRatioCall(F) ==
    /\ Idle
    /\ \E i \in Inst, o \in F, s \in F :
         DirectCall("signal_to_noise_ratio", i, o, s, signal_to_noise_ratio(o, s))
    /\ UNCHANGED <<sr, encoder, handles, built>>
    /\ UNCHANGED others

DurationAnalysisCall(F) ==
    /\ Idle
    /\ \E i \in Inst, o \in F, s \in F :
         DirectCall("duration_analysis", i, o, s, duration_analysis(sr[i], o, s))
    /\ UNCHANGED <<sr, encoder, handles, built>>
    /\ UNCHANGED others

MelCepstralDistortionCall(F) ==
    /\ Idle
    /\ \E i \in Inst, o \in F, s \in F :
         DirectCall("mel_cepstral_distortion", i, o, s, mel_cepstral_distortion(o, s))
    /\ UNCHANGED <<sr, encoder, handles, built>>
    /\ UNCHANGED others

SpectralConvergenceCall(F) ==
    /\ Idle
    /\ \E i \in Inst, o \in F, s \in F :
         DirectCall("spectral_convergence", i, o, s, spectral_convergence(o, s))
    /\ UNCHANGED <<sr, encoder, handles, built>>
    /\ UNCHANGED others

SpectralSimilarityCall(F) ==
    /\ Idle
    /\ \E i \in Inst, o \in F, s \in F :
         DirectCall("spectral_similarity", i, o, s, spectral_similarity(o, s))
    /\ UNCHANGED <<sr, encoder, handles, built>>
    /\ UNCHANGED others

(* pitch_metrics(audio_path); fault is librosa.yin raising *)
PitchMetricsCall(F) ==
    /\ Idle
    /\ \E i \in Inst, o \in F, fault \in BOOLEAN :
         DirectCall("pitch_metrics", i, o, Missing,
                    IF fault /\ ~LoadFails(o) THEN Raise("ComputationError")
                    ELSE pitch_metrics(o))
    /\ UNCHANGED <<sr, encoder, handles, built>>
    /\ UNCHANGED others

(* the steps in which a library call fails during one evaluation *)
FaultSets == {f \in SUBSET Range(MetricSequence) : Cardinality(f) <= MaxFaults}

(* comprehensive_evaluation from its call to its return *)
ComprehensiveEvaluationCall(F) ==
    /\ Idle
    /\ \E i \in Inst, o \in F, s \in F, faults \in FaultSets,
          loads \in {b \in BOOLEAN : b => handles < MaxEncoders} :
         LET e == comprehensive_evaluation(encoder, i, handles, loads, sr[i], o, s,
                                           faults)
         IN  /\ encoder' = e.encoder
             /\ handles' = handles + e.constructed
             /\ built' = [built EXCEPT ![i] = @ + e.constructed]
             /\ results' = e.results
             /\ failed' = e.failed
             /\ self' = i
             /\ original_path' = o
             /\ synthetic_path' = s
    /\ op' = "comprehensive_evaluation"
    /\ pc' = "returned"
    /\ calls' = <<>>
    /\ ret' = NoReturn
    /\ raised' = FALSE
    /\ UNCHANGED verbose
    /\ UNCHANGED <<sr, dirs, disk, output_path, batch, tts>>

(* evaluator.save_results(results, output_path) on the record the          *)
(* evaluation returned                                                     *)
SaveResults(P) ==
    /\ op = "comprehensive_evaluation"
    /\ pc = "returned"
    /\ ~raised
    /\ \E path \in P :
         LET made == Mkdir(dirs, disk, Parent(path))
         IN  /\ output_path' = path
             /\ dirs' = made.dirs
             /\ IF made.raises \/ path \in made.dirs
                THEN /\ raised' = TRUE
                     /\ disk' = disk
                ELSE /\ raised' = FALSE
                     /\ disk' = (path :> Dump(results)) @@ disk
    /\ op' = "save_results"
    /\ UNCHANGED verbose
    /\ UNCHANGED <<sr, encoder, handles, built, pc, self, original_path,
                   synthetic_path, results, calls, failed, ret, batch, tts>>

(* the caller is done with what the operation returned or raised *)
Discard ==
    /\ pc = "returned"
    /\ pc' = "idle"
    /\ op' = "none"
    /\ self' = 1
    /\ original_path' = Missing
    /\ synthetic_path' = Missing
    /\ results' = NoResults
    /\ calls' = <<>>
    /\ failed' = {}
    /\ ret' = NoReturn
    /\ raised' = FALSE
    /\ UNCHANGED <<sr, encoder, handles, built>>
    /\ UNCHANGED others

---------------------------------------------------------------------------
(* evaluate_models.py: compare_models over a dict of model outputs.        *)

ModelNames == <<"xtts", "yourtts", "coqui">>

Names == {ModelNames[k] : k \in 1..Min(MaxModels, Len(ModelNames))}

(* f"{model_name}_metrics.json" *)
MetricsFile(model_name) ==
    CASE model_name = "xtts" -> "xtts_metrics.json"
      [] model_name = "yourtts" -> "yourtts_metrics.json"
      [] model_name = "coqui" -> "coqui_metrics.json"

Voiced == [exists |-> TRUE, ok |-> TRUE, samples |-> <<1>>, f0 |-> Contour(<<1>>)]

BatchFiles == {Missing, Corrupt, Voiced}

(* a dict in its iteration order: no model name twice *)
ModelOutputs ==
    UNION {{m \in [1..k -> [model_name : Names, synthetic_path : BatchFiles]] :
              \A a, b \in 1..k : a # b => m[a].model_name # m[b].model_name} :
           k \in 0..MaxModels}

NoDir == [given |-> FALSE, path |-> <<>>]

OutputDirs == {NoDir, [given |-> TRUE, path |-> <<"outputs", "comparisons">>]}

NoBatch ==
    [reference_path |-> Missing, model_outputs |-> <<>>, output_dir |-> NoDir,
     evaluator |-> 1, next |-> 1, all_results |-> <<>>, returned |-> <<>>,
     df |-> <<>>, models |-> <<>>]

(* Path(synthetic_path).exists() reporting every file as present *)
ExistsAlways(path) == TRUE

(* Path(synthetic_path).exists() *)
Exists(path) == path.exists

(* evaluate_model_output tagging the record and its synthetic_audio *)
evaluate_model_output_retagged(record, model_name) ==
    Update(record, [model_name |-> Name(model_name),
                    synthetic_audio |-> Name(model_name)])

(* evaluate_model_output: results['model_name'] = model_name on the record *)
(* comprehensive_evaluation returned                                       *)
evaluate_model_output(record, model_name) ==
    Update(record, "model_name" :> Name(model_name))

(* result.get(key, default) *)
Get(result, key, default) == IF key \in DOMAIN result THEN result[key] ELSE default

Columns ==
    <<"Model", "Speaker Similarity", "MCD (dB)", "Spectral Convergence",
      "SNR (dB)", "Mel Correlation", "Mel MSE", "Duration Ratio",
      "Pitch Difference (Hz)">>

ColumnKey(column) ==
    CASE column = "Speaker Similarity" -> "speaker_similarity"
      [] column = "MCD (dB)" -> "mcd"
      [] column = "Spectral Convergence" -> "spectral_convergence"
      [] column = "SNR (dB)" -> "snr"
      [] column = "Mel Correlation" -> "mel_correlation"
      [] column = "Mel MSE" -> "mel_mse"
      [] column = "Duration Ratio" -> "duration_ratio"
      [] column = "Pitch Difference (Hz)" -> "pitch_difference"

Row(result) ==
    [column \in Range(Columns) |->
        IF column = "Model" THEN Get(result, "model_name", Name("Unknown"))
        ELSE Get(result, ColumnKey(column), None)]

(* the rows of the records in which no listed metric is null or missing *)
comparison_data_complete(all_results) ==
    LET Rows == [k \in 1..Len(all_results) |-> Row(all_results[k])]
    IN  SelectSeq(Rows, LAMBDA row : \A column \in Range(Columns) : row[column] # None)

(* comparison_data: one dict per element of all_results *)
comparison_data(all_results) == [k \in 1..Len(all_results) |-> Row(all_results[k])]

(* pd.DataFrame(rows): a None becomes nan in a column that holds a number *)
DataFrame(rows) ==
    [k \in 1..Len(rows) |->
        [column \in Range(Columns) |->
            IF rows[k][column] = None
                 /\ \E j \in 1..Len(rows) : rows[j][column] # None
            THEN NaN
            ELSE rows[k][column]]]

(* df.to_csv(comparison_file, index=False) *)
ToCsv(df) ==
    [tok |-> "csv", header |-> IF Len(df) = 0 THEN <<>> ELSE Columns, rows |-> df]

(* json.dump of a list *)
DumpList(list) ==
    [tok |-> "array", items |-> [k \in 1..Len(list) |-> Dump(list[k])]]

(* evaluator = TTSMetrics(sr=16000): an instance nothing has used *)
NewEvaluator ==
    CHOOSE i \in Inst :
        /\ encoder[i] = NoEncoder /\ built[i] = 0
        /\ \A j \in Inst : (encoder[j] = NoEncoder /\ built[j] = 0) => i <= j

CompareModels(D) ==
    /\ Idle
    /\ \E i \in Inst : encoder[i] = NoEncoder /\ built[i] = 0
    /\ \E reference \in BatchFiles, outputs \in D, dir \in OutputDirs :
         batch' = [NoBatch EXCEPT !.reference_path = reference,
                                 !.model_outputs = outputs,
                                 !.output_dir = dir,
                                 !.evaluator = NewEvaluator]
    /\ sr' = [sr EXCEPT ![NewEvaluator] = CompareSr]
    /\ self' = NewEvaluator
    /\ op' = "compare_models"
    /\ pc' = "loop"
    /\ raised' = FALSE
    /\ UNCHANGED verbose
    /\ UNCHANGED <<encoder, handles, built, original_path, synthetic_path,
                   results, calls, failed, ret, dirs, disk, output_path, tts>>

(* one pass of `for model_name, synthetic_path in model_outputs.items()` *)
ModelIteration ==
    /\ op = "compare_models"
    /\ pc = "loop"
    /\ batch.next <= Len(batch.model_outputs)
    /\ LET m == batch.model_outputs[batch.next]
       IN  IF ~Exists(m.synthetic_path)
           THEN /\ batch' = [batch EXCEPT !.next = @ + 1]
                /\ UNCHANGED <<encoder, handles, built, dirs, disk, output_path,
                               pc, raised>>
           ELSE \E loads \in {b \in BOOLEAN : b => handles < MaxEncoders} :
                  LET e == comprehensive_evaluation(
                               encoder, batch.evaluator, handles, loads,
                               sr[batch.evaluator], batch.reference_path,
                               m.synthetic_path, {})
                      record == evaluate_model_output(e.results, m.model_name)
                      made == Mkdir(dirs, disk, batch.output_dir.path)
                      output_file == batch.output_dir.path
                                        \o <<MetricsFile(m.model_name)>>
                  IN  /\ encoder' = e.encoder
                      /\ handles' = handles + e.constructed
                      /\ built' = [built EXCEPT ![batch.evaluator] = @ + e.constructed]
                      /\ batch' = [batch EXCEPT
                                     !.next = @ + 1,
                                     !.all_results = Append(@, record),
                                     !.returned = Append(@, e.results)]
                      /\ IF ~batch.output_dir.given
                         THEN UNCHANGED <<dirs, disk, output_path, pc, raised>>
                         ELSE IF made.raises
                         THEN /\ raised' = TRUE
                              /\ pc' = "returned"
                              /\ UNCHANGED <<dirs, disk, output_path>>
                         ELSE /\ dirs' = made.dirs
                              /\ disk' = (output_file :> Dump(record)) @@ disk
                              /\ output_path' = output_file
                              /\ UNCHANGED <<pc, raised>>
    /\ UNCHANGED verbose
    /\ UNCHANGED <<sr, op, self, original_path, synthetic_path, results, calls,
                   failed, ret, tts>>

(* after the loop: the table, comparison.csv, comparison_full.json and the *)
(* return; the files cannot be opened in a directory that does not exist   *)
CompareFinish ==
    /\ op = "compare_models"
    /\ pc = "loop"
    /\ batch.next > Len(batch.model_outputs)
    /\ LET df == DataFrame(comparison_data(batch.all_results))
           comparison_file == batch.output_dir.path \o <<"comparison.csv">>
           json_file == batch.output_dir.path \o <<"comparison_full.json">>
       IN  /\ batch' = [batch EXCEPT !.df = df]
           /\ IF ~batch.output_dir.given
              THEN UNCHANGED <<disk, raised>>
              ELSE IF batch.output_dir.path \notin dirs
              THEN /\ raised' = TRUE
                   /\ disk' = disk
              ELSE /\ raised' = FALSE
                   /\ disk' = (comparison_file :> ToCsv(df))
                                @@ (json_file :> DumpList(batch.all_results))
                                @@ disk
    /\ pc' = "returned"
    /\ UNCHANGED verbose
    /\ UNCHANGED <<sr, encoder, handles, built, op, self, original_path,
                   synthetic_path, results, calls, failed, ret, dirs, output_path,
                   tts>>

---------------------------------------------------------------------------
(* The command line of evaluate_models.py.  A --models argument is what    *)
(* is found at the path: nothing, a directory with its *.wav files, or a   *)
(* file; parent tells apart two paths with the same last component.        *)

NoPath ==
    [kind |-> "missing", parent |-> "outputs", name |-> "xtts", suffix |-> "",
     wav_files |-> <<>>]

CliPaths ==
    {NoPath,
     [kind |-> "dir", parent |-> "outputs", name |-> ModelNames[1], suffix |-> "",
      wav_files |-> <<>>],
     [kind |-> "file", parent |-> "outputs", name |-> ModelNames[1],
      suffix |-> ".txt", wav_files |-> <<Voiced>>]}
    \cup {[kind |-> "dir", parent |-> d, name |-> n, suffix |-> "",
           wav_files |-> <<Voiced>>] :
            d \in {"outputs", "backup"}, n \in {ModelNames[1], ModelNames[2]}}
    \cup {[kind |-> "file", parent |-> "outputs", name |-> n, suffix |-> ".wav",
           wav_files |-> <<Voiced>>] : n \in {ModelNames[1], ModelNames[2]}}

ModelArgs == UNION {[1..k -> CliPaths] : k \in 0..MaxPaths}

(* 'outputs/xtts' and 'outputs/yourtts', searched when --models is absent: *)
(* each is missing or a directory with a .wav file                         *)
DefaultDirs ==
    LET found(n) == {NoPath} \cup {p \in CliPaths : /\ p.kind = "dir"
                                                     /\ p.parent = "outputs"
                                                     /\ p.name = n
                                                     /\ p.wav_files # <<>>}
    IN  {<<a, b>> : a \in found(ModelNames[1]), b \in found(ModelNames[2])}

(* the test under which main takes a model from a path: a directory in     *)
(* which glob("*.wav") finds something, or a file whose suffix is '.wav'   *)
Yields(path) ==
    \/ path.kind = "dir" /\ path.wav_files # <<>>
    \/ path.kind = "file" /\ path.suffix = ".wav"

(* model_outputs[model_name] = synthetic_path on a dict kept in its        *)
(* iteration order: a key already there keeps its place and gets the value *)
SetItem(d, model_name, audio) ==
    IF \E k \in 1..Len(d) : d[k].model_name = model_name
    THEN [k \in 1..Len(d) |->
            IF d[k].model_name = model_name
            THEN [d[k] EXCEPT !.synthetic_path = audio]
            ELSE d[k]]
    ELSE Append(d, [model_name |-> model_name, synthetic_path |-> audio])

(* the loop over the paths: path.name of a directory and path.stem of a    *)
(* file are the model name, wav_files[0] or the file itself the audio      *)
RECURSIVE CollectModels(_, _)
CollectModels(paths, model_outputs) ==
    IF paths = <<>> THEN model_outputs
    ELSE LET path == Head(paths)
         IN  CollectModels(Tail(paths),
                           IF Yields(path)
                           THEN SetItem(model_outputs, path.name, path.wav_files[1])
                           ELSE model_outputs)

(* main of evaluate_models.py up to its call of compare_models: it returns *)
(* early without a reference or without any model                          *)
Main ==
    /\ Idle
    /\ \E reference \in BatchFiles, models \in ModelArgs, defaults \in DefaultDirs,
          quiet \in BOOLEAN :
         LET model_outputs ==
                 CollectModels(IF models # <<>> THEN models ELSE defaults, <<>>)
         IN  IF ~Exists(reference) \/ model_outputs = <<>>
             THEN /\ batch' = [NoBatch EXCEPT !.reference_path = reference,
                                              !.models = models]
                  /\ op' = "main"
                  /\ pc' = "returned"
                  /\ UNCHANGED <<sr, self, verbose>>
             ELSE /\ batch' = [NoBatch EXCEPT
                                 !.reference_path = reference,
                                 !.model_outputs = model_outputs,
                                 !.output_dir =
                                     [given |-> TRUE,
                                      path |-> <<"outputs", "comparisons">>],
                                 !.evaluator = NewEvaluator,
                                 !.models = models]
                  /\ sr' = [sr EXCEPT ![NewEvaluator] = CompareSr]
                  /\ self' = NewEvaluator
                  /\ verbose' = ~quiet
                  /\ op' = "compare_models"
                  /\ pc' = "loop"
    /\ raised' = FALSE
    /\ UNCHANGED <<encoder, handles, built, original_path, synthetic_path,
                   results, calls, failed, ret, dirs, disk, output_path, tts>>

---------------------------------------------------------------------------
(* The model wrappers: XTTS, YourTTS and CoquiTTS (scr/models) and         *)
(* GPTSoVITS (scr/sovits), each around a synthesis engine that writes or   *)
(* returns audio, or raises.                                               *)

TTSWrappers == {"XTTS", "YourTTS", "CoquiTTS"}

Wrappers == TTSWrappers \cup {"GPTSoVITS"}

(* what the engine does when it is called *)
EngineOutcomes == {"ok", "RuntimeError", "ValueError"}

SynthPaths ==
    {<<"out.wav">>, <<"outputs", "out.wav">>, <<"outputs", "xtts", "out.wav">>}

WavText == [tok |-> "wav"]

NoWrapper ==
    [wrapper |-> "none", use_native_api |-> FALSE, attributes |-> {},
     engine |-> "not called", exception |-> "none", printed |-> FALSE,
     returned |-> {}, text_list |-> <<>>, output_paths |-> <<>>]

(* os.makedirs(os.path.dirname(output_path), exist_ok=True): the dirname   *)
(* of a bare file name is '' and makedirs('') raises FileNotFoundError     *)
Makedirs(existing, written, directory) ==
    IF directory = <<>> THEN [dirs |-> existing, raises |-> TRUE]
    ELSE Mkdir(existing, written, directory)

(* self.tts = TTS(model_name).to(device) *)
WrapperInit ==
    /\ Idle
    /\ tts.wrapper = "none"
    /\ \E w \in TTSWrappers, loads \in BOOLEAN :
         IF loads
         THEN /\ tts' = [NoWrapper EXCEPT !.wrapper = w,
                                          !.attributes = {"model_name", "device", "tts"}]
              /\ raised' = FALSE
         ELSE /\ tts' = [NoWrapper EXCEPT !.exception = "ModelLoadError",
                                          !.printed = TRUE]
              /\ raised' = TRUE
    /\ op' = "__init__"
    /\ UNCHANGED verbose
    /\ UNCHANGED <<sr, encoder, handles, built, pc, self, original_path,
                   synthetic_path, results, calls, failed, ret, dirs, disk,
                   output_path, batch>>

(* GPTSoVITS.__init__: native is whether GPT_SoVITS can be imported;       *)
(* _load_native_implementation sets inference_fn,                          *)
(* _setup_alternative_implementation sets sample_rate and hop_length       *)
GPTSoVITSInit ==
    /\ Idle
    /\ tts.wrapper = "none"
    /\ \E native \in BOOLEAN :
         tts' = [NoWrapper EXCEPT
                   !.wrapper = "GPTSoVITS",
                   !.use_native_api = native,
                   !.attributes =
                       {"device", "gpt_model_path", "sovits_model_path",
                        "use_native_api"}
                       \cup (IF native THEN {"inference_fn"}
                             ELSE {"sample_rate", "hop_length"})]
    /\ op' = "__init__"
    /\ raised' = FALSE
    /\ UNCHANGED verbose
    /\ UNCHANGED <<sr, encoder, handles, built, pc, self, original_path,
                   synthetic_path, results, calls, failed, ret, dirs, disk,
                   output_path, batch>>

(* the call ends with exception exc; printed is whether the except clause  *)
(* of synthesize was passed                                                *)
SynthRaises(engine, exc, printed) ==
    /\ tts' = [tts EXCEPT !.engine = engine, !.exception = exc,
                          !.printed = printed, !.returned = {}]
    /\ raised' = TRUE
    /\ UNCHANGED <<dirs, disk>>

(* the audio is written and output_path returned *)
SynthReturns(path, made) ==
    /\ tts' = [tts EXCEPT !.engine = "ok", !.exception = "none",
                          !.printed = FALSE, !.returned = {path}]
    /\ raised' = FALSE
    /\ dirs' = made.dirs
    /\ disk' = (path :> WavText) @@ disk

(* XTTS.synthesize, YourTTS.synthesize, CoquiTTS.synthesize: makedirs and  *)
(* tts_to_file inside one try whose except clause prints and re-raises     *)
WrapperSynthesize ==
    /\ tts.wrapper \in TTSWrappers
    /\ \E path \in SynthPaths, engine \in EngineOutcomes :
         LET made == Makedirs(dirs, disk, Parent(path))
         IN  /\ output_path' = path
             /\ IF made.raises
                THEN SynthRaises("not called", "FileNotFoundError", TRUE)
                ELSE IF engine # "ok"
                THEN /\ tts' = [tts EXCEPT !.engine = engine, !.exception = engine,
                                           !.printed = TRUE, !.returned = {}]
                     /\ raised' = TRUE
                     /\ dirs' = made.dirs
                     /\ disk' = disk
                ELSE SynthReturns(path, made)
    /\ op' = "synthesize"
    /\ pc' = "returned"
    /\ UNCHANGED verbose
    /\ UNCHANGED <<sr, encoder, handles, built, self, original_path,
                   synthetic_path, results, calls, failed, ret, batch>>

(* GPTSoVITS.synthesize of an instance with these attributes, as one call: *)
(* makedirs before the try; inside it the native or the alternative        *)
(* synthesis, whose outcome is engine, then                                *)
(* sf.write(output_path, audio_output, self.sample_rate)                   *)
synthesize(attributes, existing, written, path, engine) ==
    LET made == Makedirs(existing, written, Parent(path))
        caught(exc) ==
            [engine |-> engine, exception |-> exc, printed |-> TRUE,
             returned |-> {}, raises |-> TRUE, dirs |-> made.dirs,
             disk |-> written]
    IN  IF made.raises
        THEN [engine |-> "not called", exception |-> "FileNotFoundError",
              printed |-> FALSE, returned |-> {}, raises |-> TRUE,
              dirs |-> existing, disk |-> written]
        ELSE IF engine # "ok" THEN caught(engine)
        ELSE IF "sample_rate" \notin attributes THEN caught("AttributeError")
        ELSE [engine |-> "ok", exception |-> "none", printed |-> FALSE,
              returned |-> {path}, raises |-> FALSE, dirs |-> made.dirs,
              disk |-> (path :> WavText) @@ written]

GPTSoVITSSynthesize ==
    /\ tts.wrapper = "GPTSoVITS"
    /\ \E path \in SynthPaths, engine \in EngineOutcomes :
         LET r == synthesize(tts.attributes, dirs, disk, path, engine)
         IN  /\ output_path' = path
             /\ tts' = [tts EXCEPT !.engine = r.engine,
                                   !.exception = r.exception,
                                   !.printed = r.printed,
                                   !.returned = r.returned]
             /\ raised' = r.raises
             /\ dirs' = r.dirs
             /\ disk' = r.disk
    /\ op' = "synthesize"
    /\ pc' = "returned"
    /\ UNCHANGED verbose
    /\ UNCHANGED <<sr, encoder, handles, built, self, original_path,
                   synthetic_path, results, calls, failed, ret, batch>>

(* the attributes of self that get_model_info reads *)
ModelInfoReads ==
    {"gpt_model_path", "sovits_model_path", "device", "use_native_api",
     "sample_rate"}

(* GPTSoVITS.get_model_info: a dict of five attributes, AttributeError for *)
(* one that was never assigned                                             *)
GetModelInfo ==
    /\ tts.wrapper = "GPTSoVITS"
    /\ IF ModelInfoReads \subseteq tts.attributes
       THEN /\ ret' = [using_native_api |-> tts.use_native_api,
                       sample_rate |-> 32000]
            /\ tts' = [tts EXCEPT !.exception = "none", !.engine = "not called",
                                  !.printed = FALSE, !.returned = {}]
            /\ raised' = FALSE
       ELSE /\ ret' = NoReturn
            /\ tts' = [tts EXCEPT !.exception = "AttributeError",
                                  !.engine = "not called",
                                  !.printed = FALSE, !.returned = {}]
            /\ raised' = TRUE
    /\ op' = "get_model_info"
    /\ pc' = "returned"
    /\ UNCHANGED verbose
    /\ UNCHANGED <<sr, encoder, handles, built, self, original_path,
                   synthetic_path, results, calls, failed, dirs, disk,
                   output_path, batch>>

(* f"{i:03d}" *)
ZeroPad(i) ==
    IF i < 10 THEN "00" \o ToString(i)
    ELSE IF i < 100 THEN "0" \o ToString(i)
    ELSE ToString(i)

(* os.path.join(output_dir, f"output_{i:03d}.wav") *)
BatchPath(output_dir, i) == Append(output_dir, "output_" \o ZeroPad(i) \o ".wav")

(* the loop of batch_synthesize leaving at the first text that fails *)
RECURSIVE BatchLoopBreaking(_, _, _, _, _)
BatchLoopBreaking(i, attributes, acc, output_dir, outcomes) ==
    IF i >= Len(outcomes) THEN acc
    ELSE LET path == BatchPath(output_dir, i)
             r == synthesize(attributes, acc.dirs, acc.disk, path, outcomes[i + 1])
         IN  IF r.raises THEN [acc EXCEPT !.dirs = r.dirs, !.disk = r.disk]
             ELSE BatchLoopBreaking(i + 1, attributes,
                                    [dirs |-> r.dirs, disk |-> r.disk,
                                     output_paths |-> Append(acc.output_paths, path)],
                                    output_dir, outcomes)

(* for i, text in enumerate(text_list), from index i on: outcomes[i + 1]   *)
(* is what the synthesis engine does for the text at index i; a call that  *)
(* raises is printed and the loop continues                                *)
RECURSIVE BatchLoop(_, _, _, _, _)
BatchLoop(i, attributes, acc, output_dir, outcomes) ==
    IF i >= Len(outcomes) THEN acc
    ELSE LET path == BatchPath(output_dir, i)
             r == synthesize(attributes, acc.dirs, acc.disk, path, outcomes[i + 1])
         IN  BatchLoop(i + 1, attributes,
                       [dirs |-> r.dirs, disk |-> r.disk,
                        output_paths |-> IF r.raises THEN acc.output_paths
                                         ELSE Append(acc.output_paths, path)],
                       output_dir, outcomes)

TextLists == UNION {[1..n -> EngineOutcomes] : n \in 0..MaxTexts}

BatchDirs == {<<>>, <<"outputs">>, <<"outputs", "batch">>}

(* GPTSoVITS.batch_synthesize: the directory made first, outside any try,  *)
(* then the loop, then the list returned                                   *)
BatchSynthesize ==
    /\ Idle
    /\ tts.wrapper = "GPTSoVITS"
    /\ \E output_dir \in BatchDirs, outcomes \in TextLists :
         LET made == Makedirs(dirs, disk, output_dir)
             done == BatchLoop(0, tts.attributes,
                               [dirs |-> made.dirs, disk |-> disk,
                                output_paths |-> <<>>],
                               output_dir, outcomes)
         IN  /\ output_path' = output_dir
             /\ IF made.raises
                THEN /\ tts' = [tts EXCEPT !.exception = "FileNotFoundError",
                                           !.engine = "not called",
                                           !.printed = FALSE,
                                           !.returned = {},
                                           !.text_list = outcomes,
                                           !.output_paths = <<>>]
                     /\ raised' = TRUE
                     /\ UNCHANGED <<dirs, disk>>
                ELSE /\ tts' = [tts EXCEPT !.exception = "none",
                                           !.engine = "not called",
                                           !.printed = FALSE,
                                           !.returned = {},
                                           !.text_list = outcomes,
                                           !.output_paths = done.output_paths]
                     /\ raised' = FALSE
                     /\ dirs' = done.dirs
                     /\ disk' = done.disk
    /\ op' = "batch_synthesize"
    /\ pc' = "returned"
    /\ UNCHANGED verbose
    /\ UNCHANGED <<sr, encoder, handles, built, self, original_path,
                   synthetic_path, results, calls, failed, ret, batch>>

---------------------------------------------------------------------------
(* TTSMetrics(sr): every instance starts with no encoder.                  *)

InitEvaluators ==
    /\ sr = [i \in Inst |-> DefaultSr]
    /\ encoder = [i \in Inst |-> NoEncoder]
    /\ handles = 0
    /\ built = [i \in Inst |-> 0]
    /\ op = "none"
    /\ pc = "idle"
    /\ self = 1
    /\ original_path = Missing
    /\ synthetic_path = Missing
    /\ results = NoResults
    /\ calls = <<>>
    /\ failed = {}
    /\ ret = NoReturn
    /\ raised = FALSE
    /\ verbose = TRUE

Init ==
    /\ InitEvaluators
    /\ dirs = {}
    /\ disk = <<>>
    /\ output_path = <<>>
    /\ batch = NoBatch
    /\ tts = NoWrapper

Next ==
    \/ ComprehensiveEvaluation(EvalFiles)
    \/ SpeakerSimilarityStep
    \/ MCDStep
    \/ SpectralConvergenceStep
    \/ SNRStep
    \/ SpectralSimilarityStep
    \/ DurationStep
    \/ PitchStep
    \/ EnergyStep
    \/ SpeakerSimilarityCall(EvalFiles)
    \/ Discard

Spec == Init /\ [][Next]_vars

(* the metric functions alone, on longer waveforms *)
NextMetrics ==
    \/ SignalToNoiseRatioCall(Files)
    \/ DurationAnalysisCall(Files)
    \/ MelCepstralDistortionCall(Files)
    \/ SpectralConvergenceCall(Files)
    \/ SpectralSimilarityCall(Files)
    \/ SpeakerSimilarityCall(Files)
    \/ Discard

SpecMetrics == Init /\ [][NextMetrics]_vars

(* pitch_metrics alone, on every contour *)
NextPitch ==
    \/ PitchMetricsCall(PitchFiles)
    \/ Discard

SpecPitch == Init /\ [][NextPitch]_vars

(* one run of the command line of metrics.py: an evaluation, then its      *)
(* record saved, in a file system that may hold the output directories     *)
(* and an older output file                                                *)
DirStates == {Ancestors(d) : d \in {Parent(p) : p \in OutputPaths} \cup {<<>>, <<"results">>}}

InitSave ==
    /\ InitEvaluators
    /\ dirs \in DirStates
    /\ disk \in {<<>>} \cup {p :> StaleText : p \in {q \in OutputPaths :
                                                     Ancestors(Parent(q)) \subseteq dirs}}
    /\ output_path = <<>>
    /\ batch = NoBatch
    /\ tts = NoWrapper

NextSave ==
    \/ ComprehensiveEvaluationCall(EvalFiles)
    \/ SaveResults(OutputPaths)

SpecSave == InitSave /\ [][NextSave]_vars

(* one call of compare_models, the output directory there or not *)
InitCompare ==
    /\ InitEvaluators
    /\ dirs \in {Ancestors(d) : d \in {<<>>, <<"outputs">>, <<"outputs", "comparisons">>}}
    /\ disk = <<>>
    /\ output_path = <<>>
    /\ batch = NoBatch
    /\ tts = NoWrapper

NextCompare ==
    \/ CompareModels(ModelOutputs)
    \/ ModelIteration
    \/ CompareFinish

SpecCompare == InitCompare /\ [][NextCompare]_vars

(* one run of the command line of evaluate_models.py *)
NextMain ==
    \/ Main
    \/ ModelIteration
    \/ CompareFinish

SpecMain == Init /\ [][NextMain]_vars

(* a wrapper constructed and its synthesize called, again and again *)
InitSynth ==
    /\ InitEvaluators
    /\ dirs \in {Ancestors(d) : d \in {<<>>, <<"outputs">>}}
    /\ disk = <<>>
    /\ output_path = <<>>
    /\ batch = NoBatch
    /\ tts = NoWrapper

NextSynth ==
    \/ WrapperInit
    \/ GPTSoVITSInit
    \/ WrapperSynthesize
    \/ GPTSoVITSSynthesize
    \/ GetModelInfo

SpecSynth == InitSynth /\ [][NextSynth]_vars

(* a GPTSoVITS object constructed and its batch_synthesize called *)
NextBatch ==
    \/ GPTSoVITSInit
    \/ BatchSynthesize

SpecBatch == InitSynth /\ [][NextBatch]_vars

---------------------------------------------------------------------------
(* Properties of comprehensive_evaluation                                  *)

ExpectedKeys ==
    {"original_audio", "synthetic_audio", "speaker_similarity", "mcd",
     "spectral_convergence", "snr", "mel_mse", "mel_correlation",
     "original_duration", "synthetic_duration", "duration_difference",
     "duration_ratio", "original_pitch", "synthetic_pitch", "pitch_difference",
     "original_energy", "synthetic_energy"}

EightSteps ==
    {"speaker_similarity", "mel_cepstral_distortion", "spectral_convergence",
     "signal_to_noise_ratio", "spectral_similarity", "duration_analysis",
     "pitch_metrics", "energy_metrics"}

(* the keys a step is expected to account for *)
StepKeys(step) ==
    CASE step = "speaker_similarity" -> {"speaker_similarity"}
      [] step = "mel_cepstral_distortion" -> {"mcd"}
      [] step = "spectral_convergence" -> {"spectral_convergence"}
      [] step = "signal_to_noise_ratio" -> {"snr"}
      [] step = "spectral_similarity" -> {"mel_mse", "mel_correlation"}
      [] step = "duration_analysis" ->
             {"original_duration", "synthetic_duration", "duration_difference",
              "duration_ratio"}
      [] step = "pitch_metrics" ->
             {"original_pitch", "synthetic_pitch", "pitch_difference"}
      [] step = "energy_metrics" -> {"original_energy", "synthetic_energy"}

(* what a step stores when it is the only thing that runs, on inputs that load *)
Alone(step, o, s) ==
    CASE step = "speaker_similarity" ->
             [speaker_similarity |->
                  Computed("speaker_similarity", preprocess_wav(o),
                           preprocess_wav(s))]
      [] step = "mel_cepstral_distortion" -> [mcd |-> mel_cepstral_distortion(o, s)]
      [] step = "spectral_convergence" ->
             [spectral_convergence |-> spectral_convergence(o, s)]
      [] step = "signal_to_noise_ratio" -> [snr |-> signal_to_noise_ratio(o, s)]
      [] step = "spectral_similarity" -> spectral_similarity(o, s)
      [] step = "duration_analysis" -> duration_analysis(DefaultSr, o, s)
      [] step = "pitch_metrics" ->
             [original_pitch |-> pitch_metrics(o),
              synthetic_pitch |-> pitch_metrics(s),
              pitch_difference |->
                  PitchDifference(pitch_metrics(o), pitch_metrics(s))]
      [] step = "energy_metrics" ->
             [original_energy |-> energy_metrics(o),
              synthetic_energy |-> energy_metrics(s)]

Returned == op = "comprehensive_evaluation" /\ pc = "returned"

DecodeFails == LoadFails(original_path) \/ LoadFails(synthetic_path)

(* C1: when comprehensive_evaluation returns, whatever subset of the eight *)
(* steps raised, no exception left the call, each raising step's keys are  *)
(* recorded as None, and each other step's keys hold the value the step    *)
(* stores when no step fails.                                              *)
C1_FaultIsolation ==
    Returned =>
        /\ ~raised
        /\ \A step \in EightSteps : \A k \in StepKeys(step) :
             /\ k \in DOMAIN results
             /\ IF step \in failed THEN results[k] = None
                ELSE results[k] = Alone(step, original_path, synthetic_path)[k]

(* C2: the record comprehensive_evaluation returns has every expected key, *)
(* whichever steps failed.                                                 *)
C2_CompleteShape == Returned => ExpectedKeys \subseteq DOMAIN results

SyntheticDependentKeys == ExpectedKeys \ {"original_audio", "synthetic_audio"}

(* C3: with a reference that decodes and a synthetic file that does not,   *)
(* comprehensive_evaluation does not raise and returns every key, None for *)
(* each metric that needs the synthetic decode.                            *)
C3_CorruptSynthetic ==
    (Returned /\ ~LoadFails(original_path) /\ LoadFails(synthetic_path)) =>
        /\ ~raised
        /\ ExpectedKeys \subseteq DOMAIN results
        /\ \A k \in SyntheticDependentKeys : results[k] = None

(* C4 as stated: a decode failure leaves comprehensive_evaluation as an    *)
(* exception instead of being recorded per metric.                         *)
C4_DecodeFailurePropagates == (Returned /\ DecodeFails) => raised

(* C4 as amended: a decode failure is contained step by step: nothing      *)
(* leaves the call, all eight steps run and fail, the metrics of the first *)
(* five steps are None and the last three steps write no key.              *)
C4_DecodeFailureContained ==
    (Returned /\ DecodeFails) =>
        /\ ~raised
        /\ failed = EightSteps
        /\ results = [original_audio |-> Str(original_path),
                      synthetic_audio |-> Str(synthetic_path),
                      speaker_similarity |-> None,
                      mcd |-> None,
                      spectral_convergence |-> None,
                      snr |-> None,
                      mel_mse |-> None,
                      mel_correlation |-> None]

C4_Witness ==
    /\ Returned
    /\ ~LoadFails(original_path)
    /\ LoadFails(synthetic_path)
    /\ results["snr"] = None

(* C5: an instance constructs its VoiceEncoder at most once, and once the  *)
(* encoder field is set no later step constructs another or replaces it.   *)
C5_EncoderConstructedOnce ==
    /\ [](\A i \in Inst : /\ built[i] <= 1
                          /\ (built[i] = 0) <=> (encoder[i] = NoEncoder))
    /\ [][\A i \in Inst : encoder[i] # NoEncoder =>
                            /\ encoder'[i] = encoder[i]
                            /\ built'[i] = built[i]]_vars

(* instance 1 built its encoder, instance 2 built its own afterwards, and  *)
(* a later evaluation on instance 1 has passed its speaker step            *)
C5_Witness ==
    /\ op = "comprehensive_evaluation"
    /\ pc = "mel_cepstral_distortion"
    /\ self = 1
    /\ encoder[1] = 1
    /\ encoder[2] = 2
    /\ "speaker_similarity" \notin failed

(* C6: a step of an operation on one instance leaves the encoder and sr of *)
(* every other instance unchanged, and two instances never hold the same   *)
(* encoder object.                                                         *)
C6_EncoderOwnedByInstance ==
    /\ [](\A i, j \in Inst :
            (i # j /\ encoder[i] # NoEncoder) => encoder[i] # encoder[j])
    /\ [][\A j \in Inst : j # self' =>
                            /\ encoder'[j] = encoder[j]
                            /\ sr'[j] = sr[j]]_vars

(* instance 2 built its encoder first, instance 1 its own later *)
C6_Witness ==
    /\ encoder[2] = 1
    /\ encoder[1] = 2
    /\ built = [i \in Inst |-> 1]

(* the first call of each step, in the order of the claim *)
FixedOrder ==
    <<"speaker_similarity", "mel_cepstral_distortion", "spectral_convergence",
      "signal_to_noise_ratio", "spectral_similarity", "duration_analysis",
      "pitch_metrics:original", "energy_metrics:original">>

IsSecondCall(c) == c \in {"pitch_metrics:synthetic", "energy_metrics:synthetic"}

FirstCallOf(c) ==
    IF c = "pitch_metrics:synthetic" THEN "pitch_metrics:original"
    ELSE "energy_metrics:original"

StepStarts == SelectSeq(calls, LAMBDA c : ~IsSecondCall(c))

PositionName(c) ==
    CASE c = "pitch_metrics:original" -> "pitch_metrics"
      [] c = "energy_metrics:original" -> "energy_metrics"
      [] OTHER -> c

(* C7: the metric calls of comprehensive_evaluation follow one fixed       *)
(* order whichever steps fail: the calls made so far are the steps before  *)
(* the current position, in that order, each synthetic pitch or energy     *)
(* call comes right after its reference call, and at the return all eight  *)
(* steps have been started.                                                *)
C7_FixedSequence ==
    (op = "comprehensive_evaluation" /\ ~raised) =>
        /\ Len(StepStarts) <= Len(FixedOrder)
        /\ StepStarts = SubSeq(FixedOrder, 1, Len(StepStarts))
        /\ \A n \in 1..Len(calls) :
             IsSecondCall(calls[n]) => (n > 1 /\ calls[n - 1] = FirstCallOf(calls[n]))
        /\ IF pc = "returned" THEN Len(StepStarts) = Len(FixedOrder)
           ELSE /\ Len(StepStarts) < Len(FixedOrder)
                /\ pc = PositionName(FixedOrder[Len(StepStarts) + 1])

(* an evaluation in which steps failed and all ten calls were still made *)
C7_Witness ==
    /\ Returned
    /\ {"speaker_similarity", "signal_to_noise_ratio"} \subseteq failed
    /\ Len(calls) = 10

---------------------------------------------------------------------------
(* Properties of the metric functions                                      *)

CalledDirectly(name) == op = name /\ pc = "returned"

BothLoad == ~LoadFails(original_path) /\ ~LoadFails(synthetic_path)

ShorterLen == Min(Len(original_path.samples), Len(synthetic_path.samples))

(* C8: signal_to_noise_ratio returns +inf whenever the two decoded         *)
(* signals, cut to the shorter length, are sample for sample the same.     *)
C8_IdenticalGivesInf ==
    (/\ CalledDirectly("signal_to_noise_ratio")
     /\ BothLoad
     /\ Truncate(original_path.samples, ShorterLen)
          = Truncate(synthetic_path.samples, ShorterLen)) =>
        (~raised /\ ret = Inf)

(* C9: duration_analysis does not raise on inputs that decode; its         *)
(* duration_ratio is 0 when the reference has no samples and otherwise     *)
(* synthetic_duration / original_duration.                                 *)
C9_DurationRatioGuard ==
    (CalledDirectly("duration_analysis") /\ BothLoad) =>
        /\ ~raised
        /\ IsFinite(ret.duration_ratio)
        /\ IF Len(original_path.samples) = 0
           THEN ret.duration_ratio.num = 0
           ELSE ret.duration_ratio.num * ret.original_duration.num
                    * ret.synthetic_duration.den
                = ret.duration_ratio.den * ret.synthetic_duration.num
                    * ret.original_duration.den

C9_Witness ==
    /\ CalledDirectly("duration_analysis")
    /\ BothLoad
    /\ Len(original_path.samples) = 0
    /\ Len(synthetic_path.samples) = 2
    /\ ~raised
    /\ ret.duration_ratio = Float(0, 1)

(* C10: the durations duration_analysis returns are the sample counts of   *)
(* the two recordings over the sample rate, never cut to the shorter one;  *)
(* duration_difference is their absolute difference; a synthetic recording *)
(* twice as long as the reference has duration_ratio 2 and                 *)
(* duration_difference equal to the reference duration.                    *)
C10_DurationExact ==
    (CalledDirectly("duration_analysis") /\ BothLoad) =>
        LET lo == Len(original_path.samples)
            ls == Len(synthetic_path.samples)
        IN  /\ ~raised
            /\ ret.original_duration.num * sr[self] = ret.original_duration.den * lo
            /\ ret.synthetic_duration.num * sr[self] = ret.synthetic_duration.den * ls
            /\ ret.duration_difference.num >= 0
            /\ ret.duration_difference.num * sr[self]
                 = ret.duration_difference.den * Abs(lo - ls)
            /\ (lo > 0 /\ ls = 2 * lo) =>
                 /\ ret.duration_ratio.num = 2 * ret.duration_ratio.den
                 /\ ret.duration_difference = ret.original_duration

C10_Witness ==
    /\ CalledDirectly("duration_analysis")
    /\ BothLoad
    /\ Len(original_path.samples) = 2
    /\ Len(synthetic_path.samples) = 4
    /\ ret.duration_ratio = Float(2, 1)
    /\ ret.duration_difference = ret.original_duration

---------------------------------------------------------------------------
(* Properties of identical inputs                                          *)

SameFile == original_path = synthetic_path

Holds(key, value) == key \in DOMAIN results /\ results[key] = value

(* C11 as stated: given the same file as reference and as synthetic input, *)
(* whatever its content and length, comprehensive_evaluation reports       *)
(* duration_ratio 1.0, duration_difference 0 and pitch_difference 0.       *)
C11_IdenticalInputs ==
    (Returned /\ SameFile) =>
        /\ Holds("duration_ratio", Float(1, 1))
        /\ Holds("duration_difference", Float(0, 1))
        /\ Holds("pitch_difference", Float(0, 1))

(* C11 as amended: given the same file twice, whenever the duration step   *)
(* does not fail duration_difference is 0 and duration_ratio is 1.0 for a  *)
(* file with samples and 0 for a file with none, and whenever the pitch    *)
(* step does not fail pitch_difference is 0.                               *)
C11_IdenticalInputsByLength ==
    (Returned /\ SameFile) =>
        /\ "duration_analysis" \notin failed =>
             /\ Holds("duration_difference", Float(0, 1))
             /\ Holds("duration_ratio",
                      IF Len(original_path.samples) = 0 THEN Float(0, 1)
                      ELSE Float(1, 1))
        /\ "pitch_metrics" \notin failed =>
             Holds("pitch_difference", Float(0, 1))

(* the same voiced one-sample file twice, no step failing *)
C11_Witness ==
    /\ Returned
    /\ SameFile
    /\ original_path.samples = <<1>>
    /\ failed = {}
    /\ Holds("duration_ratio", Float(1, 1))
    /\ Holds("pitch_difference", Float(0, 1))
    /\ results["original_pitch"].mean_pitch = Float(VoicedHz, 1)

Silent(w) == \A k \in 1..Len(w) : w[k] = 0

(* C12: given the same file as reference and as synthetic input,           *)
(* mel_cepstral_distortion returns 0 and spectral_convergence returns 0,   *)
(* also when the file is silent and the reference spectrogram norm, the    *)
(* denominator, is zero.                                                   *)
C12_IdenticalSpectraZero ==
    ((CalledDirectly("mel_cepstral_distortion")
        \/ CalledDirectly("spectral_convergence"))
     /\ SameFile /\ BothLoad) =>
        (~raised /\ ret = Float(0, 1))

---------------------------------------------------------------------------
(* Properties of the buffers the comparing metrics work on                 *)

TruncatingMetrics ==
    {"mel_cepstral_distortion", "spectral_convergence", "signal_to_noise_ratio",
     "spectral_similarity"}

ComparingMetrics == TruncatingMetrics \cup {"speaker_similarity"}

(* the two buffers the metric called last compared *)
Compared ==
    IF op = "speaker_similarity" THEN Preprocessed(original_path, synthetic_path)
    ELSE Aligned(original_path, synthetic_path)

IsPrefix(a, w) == Len(a) <= Len(w) /\ a = SubSeq(w, 1, Len(a))

CutToShorter ==
    /\ Len(Compared.original) = ShorterLen
    /\ Len(Compared.synthetic) = ShorterLen
    /\ IsPrefix(Compared.original, original_path.samples)
    /\ IsPrefix(Compared.synthetic, synthetic_path.samples)

(* the file whose waveform stops at the shorter of the two lengths *)
CutFile(path) == [path EXCEPT !.samples = Truncate(@, ShorterLen)]

ValueOf(name, o, s) ==
    CASE name = "mel_cepstral_distortion" -> mel_cepstral_distortion(o, s)
      [] name = "spectral_convergence" -> spectral_convergence(o, s)
      [] name = "signal_to_noise_ratio" -> signal_to_noise_ratio(o, s)
      [] name = "spectral_similarity" -> spectral_similarity(o, s)

(* C13 as stated: each of speaker_similarity, mel_cepstral_distortion,     *)
(* spectral_convergence, signal_to_noise_ratio and spectral_similarity     *)
(* compares two buffers of one length, the shorter of the two decoded      *)
(* lengths, each a prefix of its decoded waveform.                         *)
C13_AllCutToShorter ==
    ((\E name \in ComparingMetrics : CalledDirectly(name)) /\ BothLoad) =>
        CutToShorter

(* C13 as amended: mel_cepstral_distortion, spectral_convergence,          *)
(* signal_to_noise_ratio and spectral_similarity compare the two decoded   *)
(* waveforms cut to the shorter length, each a prefix of its waveform, and *)
(* return what they return on the two cut files; speaker_similarity makes  *)
(* no such cut and embeds each recording as preprocess_wav returns it,     *)
(* whatever the length of the other.                                       *)
C13_LibrosaMetricsCutToShorter ==
    /\ ((\E name \in TruncatingMetrics : CalledDirectly(name)) /\ BothLoad) =>
          /\ CutToShorter
          /\ ~raised
          /\ ret = ValueOf(op, CutFile(original_path), CutFile(synthetic_path))
    /\ (CalledDirectly("speaker_similarity") /\ BothLoad) =>
          /\ Compared.original = preprocess_wav(original_path)
          /\ Compared.synthetic = preprocess_wav(synthetic_path)
          /\ ~raised => ret = Computed("speaker_similarity",
                                       preprocess_wav(original_path),
                                       preprocess_wav(synthetic_path))

(* spectral_convergence of a one-sample reference and a three-sample       *)
(* synthetic recording that differ inside the common prefix                *)
C13_Witness ==
    /\ CalledDirectly("spectral_convergence")
    /\ original_path.samples = <<1>>
    /\ synthetic_path.samples = <<0, 1, 1>>
    /\ Compared.synthetic = <<0>>
    /\ ret = Ratio("sqrt", 1, 1)

---------------------------------------------------------------------------
(* Properties of pitch_metrics                                             *)

PitchKeys == {"mean_pitch", "std_pitch", "min_pitch", "max_pitch", "pitch_range"}

(* the frames of the contour that are neither unvoiced nor nan *)
VoicedFrames == {original_path.f0[k] : k \in 1..Len(original_path.f0)} \ {0, NaNHz}

(* C14 as stated: pitch_metrics never raises: for every input path it      *)
(* returns a mapping with exactly the five pitch keys, all 0.0 when the F0 *)
(* contour has no valid frame.                                             *)
C14_PitchNeverRaises ==
    CalledDirectly("pitch_metrics") =>
        /\ ~raised
        /\ DOMAIN ret = PitchKeys
        /\ VoicedFrames = {} => \A k \in PitchKeys : ret[k] = Float(0, 1)

(* C14 as amended: pitch_metrics raises when its input cannot be decoded;  *)
(* whenever it returns, the mapping has exactly the five pitch keys, all   *)
(* 0.0 when no frame is valid (every frame zero or nan), and otherwise the *)
(* least and greatest valid frame, their difference, and a mean between    *)
(* them.                                                                   *)
C14_PitchOfDecodable ==
    CalledDirectly("pitch_metrics") =>
        /\ LoadFails(original_path) => raised
        /\ ~raised =>
             /\ DOMAIN ret = PitchKeys
             /\ VoicedFrames = {} => \A k \in PitchKeys : ret[k] = Float(0, 1)
             /\ VoicedFrames # {} =>
                  LET lo == CHOOSE f \in VoicedFrames : \A g \in VoicedFrames : f <= g
                      hi == CHOOSE f \in VoicedFrames : \A g \in VoicedFrames : g <= f
                  IN  /\ ret.min_pitch = Float(lo, 1)
                      /\ ret.max_pitch = Float(hi, 1)
                      /\ ret.pitch_range = Float(hi - lo, 1)
                      /\ lo * ret.mean_pitch.den <= ret.mean_pitch.num
                      /\ ret.mean_pitch.num <= hi * ret.mean_pitch.den

(* a contour of a nan frame and an unvoiced frame only *)
C14_Witness ==
    /\ CalledDirectly("pitch_metrics")
    /\ original_path.f0 = <<NaNHz, 0>>
    /\ ~raised
    /\ ret.mean_pitch = Float(0, 1)
    /\ ret.pitch_range = Float(0, 1)

---------------------------------------------------------------------------
(* Properties of save_results                                              *)

Saved == op = "save_results" /\ ~raised

C16_SaveIsPureSideEffect ==
    [][(op' = "save_results" /\ op # "save_results") =>
          /\ ~raised'
          /\ results' = results
          /\ <<sr', encoder', handles', built'>> = <<sr, encoder, handles, built>>
          /\ dirs' = dirs \cup Ancestors(Parent(output_path'))
          /\ output_path' \in DOMAIN disk'
          /\ disk'[output_path'] = Dump(results)
          /\ \A q \in DOMAIN disk : q # output_path' =>
                (q \in DOMAIN disk' /\ disk'[q] = disk[q])]_vars

(* a record saved beside an older file two missing directories deep, the  *)
(* one directory that was there kept                                       *)
C16_Witness ==
    /\ Saved
    /\ output_path = <<"results", "run", "metrics.json">>
    /\ dirs = {<<"results">>, <<"results", "run">>}
    /\ <<"metrics.json">> \in DOMAIN disk
    /\ disk[output_path] = Dump(results)

---------------------------------------------------------------------------
(* Properties of compare_models                                            *)

Comparing == op = "compare_models"

CompareReturned == Comparing /\ pc = "returned" /\ ~raised

(* the entries of model_outputs the loop has been through *)
Processed == SubSeq(batch.model_outputs, 1, batch.next - 1)

(* those of them whose synthetic file is there *)
Present == SelectSeq(Processed, LAMBDA m : m.synthetic_path.exists)

ModelFile(m) == batch.output_dir.path \o <<MetricsFile(m.model_name)>>

SkippedAndKept ==
    /\ Len(batch.all_results) = Len(Present)
    /\ \A k \in 1..Len(Present) :
         /\ batch.all_results[k]["model_name"] = Name(Present[k].model_name)
         /\ batch.output_dir.given => ModelFile(Present[k]) \in DOMAIN disk
    /\ \A k \in 1..Len(Processed) :
         ~Processed[k].synthetic_path.exists =>
             ModelFile(Processed[k]) \notin DOMAIN disk
    /\ pc = "returned" => batch.next = Len(batch.model_outputs) + 1

(* C17: in compare_models a model whose synthetic file does not exist is   *)
(* skipped: it is not evaluated, gets no per-model JSON and no entry in    *)
(* the results; this never aborts the batch, and every model whose file    *)
(* exists is evaluated, in the iteration order of model_outputs.           *)
C17_MissingModelSkipped == Comparing => (~raised /\ SkippedAndKept)

(* C18: the table compare_models returns, and comparison.csv, has one row  *)
(* per evaluated model, in evaluation order, with that model's name as its *)
(* Model, whether or not the model's metrics are null or its keys missing. *)
C18_OneRowPerModel ==
    CompareReturned =>
        /\ Len(batch.df) = Len(Present)
        /\ \A k \in 1..Len(Present) :
             /\ batch.df[k]["Model"] = Name(Present[k].model_name)
             /\ DOMAIN batch.df[k] = Range(Columns)
        /\ batch.output_dir.given =>
             disk[batch.output_dir.path \o <<"comparison.csv">>].rows = batch.df

(* a file that does not decode listed before one that does: two rows in    *)
(* that order, the first from a record with null metrics and no duration   *)
(* keys                                                                    *)
C18_Witness ==
    /\ CompareReturned
    /\ Len(batch.df) = 2
    /\ batch.model_outputs[1] = [model_name |-> "yourtts", synthetic_path |-> Corrupt]
    /\ batch.df[1]["Model"] = Name("yourtts")
    /\ batch.df[2]["Model"] = Name("xtts")
    /\ batch.all_results[1]["mcd"] = None
    /\ "duration_ratio" \notin DOMAIN batch.all_results[1]
    /\ batch.df[2]["Duration Ratio"] = Float(1, 1)

(* C19: every record of the driver, in all_results, in the per-model JSON  *)
(* and in comparison_full.json, is the record comprehensive_evaluation     *)
(* returned for the reference and that model's file with the key           *)
(* model_name holding the model's name and nothing else added, removed or  *)
(* changed; one evaluator instance makes all evaluations of the call.      *)
C19_RecordPlusModelName ==
    /\ [](Comparing =>
            /\ Len(batch.returned) = Len(batch.all_results)
            /\ built[batch.evaluator] <= 1
            /\ \A k \in 1..Len(batch.all_results) :
                 LET r == batch.all_results[k]
                     e == batch.returned[k]
                 IN  /\ "model_name" \notin DOMAIN e
                     /\ DOMAIN r = DOMAIN e \cup {"model_name"}
                     /\ \A key \in DOMAIN e : r[key] = e[key]
                     /\ k <= Len(Present) =>
                          /\ r["model_name"] = Name(Present[k].model_name)
                          /\ e["original_audio"] = Str(batch.reference_path)
                          /\ e["synthetic_audio"] = Str(Present[k].synthetic_path)
                          /\ batch.output_dir.given =>
                               Load(disk[ModelFile(Present[k])]) = r
            /\ (CompareReturned /\ batch.output_dir.given) =>
                 LET full == disk[batch.output_dir.path \o <<"comparison_full.json">>]
                 IN  /\ DOMAIN full.items = 1..Len(batch.all_results)
                     /\ \A k \in DOMAIN full.items :
                          Load(full.items[k]) = batch.all_results[k])
    /\ [][(Comparing /\ op' = "compare_models") =>
             /\ batch'.evaluator = batch.evaluator
             /\ self' = batch.evaluator
             /\ \A j \in Inst : j # batch.evaluator =>
                  (encoder'[j] = encoder[j] /\ built'[j] = built[j])]_vars

(* two models evaluated and saved by one evaluator that built its encoder  *)
(* once                                                                    *)
C19_Witness ==
    /\ CompareReturned
    /\ batch.output_dir.given
    /\ Len(batch.all_results) = 2
    /\ built[batch.evaluator] = 1
    /\ batch.all_results[2]["model_name"] = Name("xtts")
    /\ batch.all_results[2]["snr"] = Inf

---------------------------------------------------------------------------
(* Properties of the model wrappers                                        *)

Synthesized == op = "synthesize" /\ pc = "returned"

(* C20: synthesize of XTTS, YourTTS, CoquiTTS and GPTSoVITS returns the    *)
(* output_path it was given when the synthesis succeeds, and when the      *)
(* synthesis raises it prints and re-raises that exception, returning no   *)
(* path.                                                                   *)
C20_SynthesizeReturnsOrReraises ==
    Synthesized =>
        /\ tts.engine = "ok" =>
             (~raised /\ tts.returned = {output_path})
        /\ tts.engine \in EngineOutcomes \ {"ok"} =>
             /\ raised
             /\ tts.exception = tts.engine
             /\ tts.printed
             /\ tts.returned = {}

---------------------------------------------------------------------------
(* Properties of the record and of the verbose flag                        *)

(* the keys are all in the record with values, or none of them is there *)
AllOrNothing(keys) ==
    \/ /\ keys \subseteq DOMAIN results
       /\ \A k \in keys : results[k] # None
    \/ keys \cap DOMAIN results = {}

(* C21: in the record comprehensive_evaluation returns, the keys of a      *)
(* multi-key step are written together: the three pitch keys, the two      *)
(* energy keys and the four duration keys are all there with values or     *)
(* none is there, a synthetic pitch call failing after the reference call  *)
(* leaves no original_pitch, and mel_mse and mel_correlation are both      *)
(* there, both values or both None.                                        *)
C21_MultiKeyStepsAtomic ==
    Returned =>
        /\ AllOrNothing(StepKeys("pitch_metrics"))
        /\ AllOrNothing(StepKeys("energy_metrics"))
        /\ AllOrNothing(StepKeys("duration_analysis"))
        /\ ("pitch_metrics:synthetic" \in Range(calls)
            /\ "pitch_metrics" \in failed) => "original_pitch" \notin DOMAIN results
        /\ StepKeys("spectral_similarity") \subseteq DOMAIN results
        /\ (results["mel_mse"] = None) <=> (results["mel_correlation"] = None)
        /\ \A k \in StepKeys("spectral_similarity") :
             results[k] # None => results[k].kind = "float"

(* the reference pitch call succeeded, the synthetic one failed, and the   *)
(* spectral similarity block failed while the energy block did not         *)
C21_Witness ==
    /\ Returned
    /\ "pitch_metrics:synthetic" \in Range(calls)
    /\ "pitch_metrics" \in failed
    /\ "original_pitch" \notin DOMAIN results
    /\ results["mel_mse"] = None
    /\ results["mel_correlation"] = None
    /\ "original_energy" \in DOMAIN results
    /\ "original_duration" \in DOMAIN results

(* the record of the same inputs with the same steps failing, computed     *)
(* without any printing                                                    *)
Quiet ==
    comprehensive_evaluation(encoder, self, handles, TRUE, sr[self],
                             original_path, synthetic_path, failed)

(* C22: verbose does not influence the result: whichever value it has,     *)
(* the evaluation returns without raising, it has started all eight steps  *)
(* in order, and its record is the one determined by the inputs and by the *)
(* steps whose metric call failed, so no printing turned a computed metric *)
(* into None.                                                              *)
C22_VerboseDoesNotInfluence ==
    Returned =>
        /\ ~raised
        /\ StepStarts = FixedOrder
        /\ results = Quiet.results
        /\ \A step \in EightSteps \ failed : \A k \in StepKeys(step) :
             k \in DOMAIN results /\ results[k] # None

(* a verbose evaluation in which a metric failed and others were computed, *)
(* printed and summarised                                                  *)
C22_Witness ==
    /\ Returned
    /\ verbose
    /\ failed = {"signal_to_noise_ratio"}
    /\ results["speaker_similarity"] # None
    /\ results["snr"] = None
    /\ "pitch_difference" \in DOMAIN results

---------------------------------------------------------------------------
(* Properties of the encoder after a failure                               *)

(* a step that runs speaker_similarity: the first step of an evaluation,   *)
(* or a direct call                                                        *)
SpeakerStep ==
    \/ pc = "speaker_similarity" /\ pc' # pc
    \/ pc = "idle" /\ op' = "speaker_similarity"

(* C23: a VoiceEncoder construction that fails leaves the encoder field    *)
(* unset and shows only as speaker_similarity = None in that evaluation,   *)
(* which does not raise and computes its other metrics; a later            *)
(* speaker_similarity on an instance whose field is unset constructs again *)
(* (it cannot succeed without building an encoder), and once an encoder    *)
(* was built a failure of preprocessing or embedding leaves it in place.   *)
C23_EncoderFailureNotCached ==
    /\ []((/\ op = "comprehensive_evaluation"
           /\ pc \notin {"idle", "speaker_similarity"}
           /\ encoder[self] = NoEncoder) =>
            /\ ~raised
            /\ "speaker_similarity" \in failed
            /\ results["speaker_similarity"] = None
            /\ Returned =>
                 \A step \in EightSteps \ failed : \A k \in StepKeys(step) :
                     k \in DOMAIN results /\ results[k] # None)
    /\ [][SpeakerStep =>
            IF encoder[self'] = NoEncoder
            THEN \/ /\ encoder' = encoder
                    /\ handles' = handles
                    /\ built' = built
                    /\ IF op' = "speaker_similarity" THEN raised'
                       ELSE /\ ~raised'
                            /\ "speaker_similarity" \in failed'
                            /\ results'["speaker_similarity"] = None
                 \/ /\ encoder' = [encoder EXCEPT ![self'] = handles + 1]
                    /\ handles' = handles + 1
                    /\ built' = [built EXCEPT ![self'] = @ + 1]
            ELSE /\ encoder' = encoder
                 /\ handles' = handles
                 /\ built' = built]_vars

(* an evaluation whose encoder construction failed: only the speaker step  *)
(* is marked, the field is still unset                                     *)
C23_Witness ==
    /\ Returned
    /\ encoder[self] = NoEncoder
    /\ failed = {"speaker_similarity"}
    /\ results["speaker_similarity"] = None
    /\ results["mcd"] # None

---------------------------------------------------------------------------
(* Properties of GPTSoVITS.batch_synthesize                                *)

BatchReturned == op = "batch_synthesize" /\ pc = "returned"

(* the path of the text at position n of text_list, counted from 1 *)
PathOfText(n) == BatchPath(output_path, n - 1)

(* C24: batch_synthesize isolates failures per text: it raises only when   *)
(* its output directory cannot be made, and otherwise returns the paths    *)
(* output_<index>.wav of exactly the texts whose file was written, in      *)
(* input order and numbered by position in text_list; a text whose         *)
(* synthesis raises gets no path and no file, and on an instance that can  *)
(* write its output every text whose synthesis succeeds gets its path,     *)
(* whatever happened to the texts before it.                               *)
C24_BatchIsolatesFailures ==
    BatchReturned =>
        IF raised THEN output_path = <<>> /\ tts.output_paths = <<>>
        ELSE LET n == Len(tts.text_list)
                 all == [k \in 1..n |-> PathOfText(k)]
             IN  /\ tts.output_paths = SelectSeq(all, LAMBDA p : p \in DOMAIN disk)
                 /\ Len(tts.output_paths) <= n
                 /\ \A k \in 1..n :
                      tts.text_list[k] # "ok" =>
                          /\ PathOfText(k) \notin Range(tts.output_paths)
                          /\ PathOfText(k) \notin DOMAIN disk
                 /\ "sample_rate" \in tts.attributes =>
                      \A k \in 1..n :
                          tts.text_list[k] = "ok" =>
                              PathOfText(k) \in Range(tts.output_paths)

(* the second of three texts failed: the first and the third are returned, *)
(* the third as output_002.wav                                             *)
C24_Witness ==
    /\ BatchReturned
    /\ ~raised
    /\ tts.text_list = <<"ok", "RuntimeError", "ok">>
    /\ tts.output_paths = <<<<"outputs", "batch", "output_000.wav">>,
                            <<"outputs", "batch", "output_002.wav">>>>

---------------------------------------------------------------------------
(* Properties of the GPTSoVITS object                                      *)

(* C25: after GPTSoVITS.__init__ the instance has every attribute its      *)
(* operations read, in the native and in the alternative mode: it has      *)
(* sample_rate and the other attributes of get_model_info, get_model_info  *)
(* returns its mapping, and a synthesize whose synthesis succeeded writes  *)
(* its output and returns.                                                 *)
C25_AttributesAfterInit ==
    tts.wrapper = "GPTSoVITS" =>
        /\ ModelInfoReads \subseteq tts.attributes
        /\ (op = "get_model_info" /\ pc = "returned") =>
             (~raised /\ ret # NoReturn)
        /\ (Synthesized /\ tts.engine = "ok") =>
             (~raised /\ output_path \in DOMAIN disk)

---------------------------------------------------------------------------
(* Properties of the command line of evaluate_models.py                    *)

(* the run is over: main returned early, or compare_models returned *)
MainDone == pc = "returned" /\ op \in {"main", "compare_models"}

(* the positions of --models at which main finds a model *)
YieldingArgs == {k \in 1..Len(batch.models) : Yields(batch.models[k])}

(* C26: with a reference that exists, every --models path that is a .wav   *)
(* file or a directory holding a .wav file yields its own evaluated model: *)
(* when the run is over the number of evaluated models is the number of    *)
(* such paths, also when two of them have the same directory name or stem. *)
C26_OneModelPerPath ==
    (MainDone /\ Exists(batch.reference_path) /\ batch.models # <<>>) =>
        Len(batch.all_results) = Cardinality(YieldingArgs)

=============================================================================
